---------------------------- MODULE Spec2Model ----------------------------
(***************************************************************************)
(* The environment lifecycle of mani_skill/envs/sapien_env.py (BaseEnv):   *)
(* construction and backend selection, seeding, reconfiguration, full and  *)
(* partial reset, stepping, observations and rewards, state save and       *)
(* restore, the viewer, close.                                             *)
(*                                                                         *)
(* One BaseEnv object is the record `env`; its fields carry the names of   *)
(* the attributes of the source.  Every public call (reset, step,          *)
(* set_state, render_human, close, the constructor) is one action: the     *)
(* handler is a function from the object before the call, the call's       *)
(* arguments and the behaviour of the collaborators it calls (task hooks,  *)
(* agent, evaluate) to the object after the call.  What the call did and   *)
(* gave back is kept in fields of the record: `trace` (the calls the       *)
(* handler made, in order), `seen` (what the hooks it called found),       *)
(* `built` (the attributes it assigned newly constructed objects),         *)
(* `raised` (the exception that left the handler, or NoError) and `ret`    *)
(* (the value returned).                                                   *)
(***************************************************************************)
EXTENDS Integers, Sequences, FiniteSets, TLC

VARIABLES
    env,                \* the BaseEnv object
    call,               \* the last public call and its arguments
    twin,               \* the seeding state of a second, independently
                        \* constructed environment given the same reset calls
    steps_since_reset,  \* history: per replica, the step calls accepted since
                        \* the last reset that zeroed the replica
    terminated_before,  \* history: per replica, terminated was true in a step
                        \* since the last reset that zeroed the replica
    reset_returned,     \* history: the most recent reset returned normally
    physx_gpu_enabled,  \* physx.is_gpu_enabled(), one flag for the process
    constructed,        \* history: the constructor calls made in the process,
                        \* with what each of them did
    resets_since_reconfigure,
                        \* history: the reset calls since the last one that
                        \* reconfigured, in an environment that reconfigures
                        \* periodically (reconfiguration_freq > 0)
    held_info           \* an info record that a step returned and the caller
                        \* has kept: what it held when it was returned, what
                        \* the caller reads in it now, and whether its
                        \* elapsed_steps is the environment's own tensor

vars == <<env, call, twin, steps_since_reset, terminated_before, reset_returned,
          physx_gpu_enabled, constructed, resets_since_reconfigure, held_info>>

-----------------------------------------------------------------------------
(* Bounds of the model *)

NumEnvs == 2         \* num_envs, the number of replicas N
MaxElapsed == 2      \* step calls are taken while every elapsed_steps < MaxElapsed
MaxSeed == 1         \* explicit reset seeds are 0..MaxSeed and the construction seed
MaxDraws == 2        \* draws from one seeding of the main generator
MaxFreq == 2         \* reconfiguration_freq is 0..MaxFreq
RandRange == 5       \* randint(2**31) is modelled with values 0..RandRange-1
MaxConstructions == 3  \* constructor calls made in one process

(* Program constants *)

ConstructionSeed == 2022   \* the fixed main seed of __init__
KINEMATIC_DIM == 13        \* scalars of an actor's state: pos, quat, lin_vel, ang_vel

None == -1
NoError == "NoError"

\* torch.arange(num_envs), and a tensor of num_envs elements that are all v
Arange(num_envs) == 0 .. num_envs - 1
Full(num_envs, v) == [i \in Arange(num_envs) |-> v]

\* the replicas of an environment of NumEnvs replicas
Replicas == Arange(NumEnvs)
Seeds == (0 .. MaxSeed) \cup {ConstructionSeed}
SeedArgs == Seeds \cup {None}

\* torch.ones(num_envs, dtype=bool), torch.zeros(num_envs, dtype=bool),
\* torch.zeros(num_envs, dtype=int32) for num_envs = NumEnvs
Ones == [i \in Replicas |-> TRUE]
Zeros == [i \in Replicas |-> FALSE]
ZeroSteps == [i \in Replicas |-> 0]

Range(seq) == {seq[k] : k \in DOMAIN seq}

-----------------------------------------------------------------------------
(* Call arguments *)

EmptyDict == [k \in {} |-> TRUE]

\* dict.get(key, default)
Get(d, key, default) == IF key \in DOMAIN d THEN d[key] ELSE default

\* env_idx, for an environment of NumEnvs replicas: sequences of replica
\* indices of length 1..NumEnvs, duplicates allowed.
\* reset uses env_idx as an index set and reads its length, so the order of
\* the indices is immaterial and ascending sequences stand for all.
EnvIdxArgs ==
    {e \in UNION {[1 .. n -> 0 .. NumEnvs - 1] : n \in 1 .. NumEnvs} :
        \A j, k \in DOMAIN e : j < k => e[j] <= e[k]}

\* options: with or without "reconfigure", with or without "env_idx"
ResetOptions ==
    {EmptyDict, [reconfigure |-> TRUE], [reconfigure |-> FALSE]}
        \cup {o @@ ("env_idx" :> e) :
                 o \in {EmptyDict, [reconfigure |-> TRUE]}, e \in EnvIdxArgs}

\* the types of action step() tells apart; a "dict" is one with the keys
\* "control_mode" and "action"
ActionArgs == {"None", "ndarray", "dict", "str"}

\* the control modes of the agent, and the one it is built in
ControlModes == {"pd_joint_pos", "pd_joint_delta_pos"}
DefaultControlMode == "pd_joint_pos"

\* what evaluate() may return in an environment of NumEnvs replicas: a dict
\* with or without the keys success and fail
EvaluateResults ==
    UNION {[K -> [0 .. NumEnvs - 1 -> BOOLEAN]] : K \in SUBSET {"success", "fail"}}

\* (sim_freq, control_freq) of the sim config
FreqArgs == {<<100, 20>>, <<7, 2>>}

\* SUPPORTED_OBS_MODES, the first the default, and those that read the sensors
SUPPORTED_OBS_MODES ==
    <<"state", "state_dict", "none", "sensor_data", "rgb", "rgbd", "pointcloud">>
DefaultObsMode == SUPPORTED_OBS_MODES[1]
SensorObsModes == {"sensor_data", "rgbd", "rgb", "pointcloud"}

\* SUPPORTED_REWARD_MODES
SUPPORTED_REWARD_MODES == <<"normalized_dense", "dense", "sparse", "none">>

\* the reward hooks of BaseEnv a task class may override
DenseHooks == {"compute_dense_reward", "compute_normalized_dense_reward"}

\* (reward_mode, hooks the task overrides): the reward mode of the
\* constructor and the task class it is called on
RewardArgs == Range(SUPPORTED_REWARD_MODES) \X SUBSET DenseHooks

\* reward_mode="none" on a task that overrides no hook
NoReward == <<"none", {}>>

\* What _load_agent and _load_scene may put into a scene: the actors by id, in
\* the order they are added, the articulations by id with the width of
\* their state, the objects the task hides from the sensors, and the
\* cameras of its _default_human_render_camera_configs.  The second scene
\* has one more actor, which it hides, and one more camera, the third a
\* wider articulation and no camera, as BaseEnv has none.
DefaultLayout ==
    [actors |-> <<"cube">>, articulations |-> << <<"panda", 2>> >>, hidden |-> <<>>,
     draws |-> 0, human_render_cameras |-> {"render_camera"}]

SceneLayouts ==
    { DefaultLayout,
      [actors |-> <<"cube", "goal">>, articulations |-> << <<"panda", 2>> >>,
       hidden |-> <<"goal">>, draws |-> 1,
       human_render_cameras |-> {"render_camera", "top_camera"}],
      [actors |-> <<"cube">>, articulations |-> << <<"panda", 3>> >>,
       hidden |-> <<>>, draws |-> 2, human_render_cameras |-> {}] }

\* the collaborator that raises during a reset, if any
ResetFaults == {"none", "agent.reset", "_initialize_episode"}

-----------------------------------------------------------------------------
(* Control flow of a handler *)

Emit(s, e) == [s EXCEPT !.trace = Append(@, e)]
Raise(s, exc) == [s EXCEPT !.raised = exc]
Return(s, value) == [s EXCEPT !.ret = value]
Enter(s) ==
    [s EXCEPT !.trace = <<>>, !.seen = EmptyDict, !.built = {}, !.raised = NoError,
              !.ret = EmptyDict]

\* a hook of the task called: what it finds in self.elapsed_steps is kept
Hook(s, e) ==
    [Emit(s, e) EXCEPT !.seen = (e :> s._elapsed_steps) @@ @]

Count(seq, e) == Cardinality({k \in DOMAIN seq : seq[k] = e})

-----------------------------------------------------------------------------
(* Seeding: _set_main_rng, _set_episode_rng *)

\* np.random.RandomState(seed).randint(2**31), the (k+1)-th draw: a fixed
\* function of the seed and of the number of draws made before it.
RandInt(seed, k) == (seed * 7 + k * 3 + 1) % RandRange

\* np.random.RandomState().randint(2**31): an unseeded generator, any value
FreshSeeds == 0 .. RandRange - 1

\* A generator is modelled by its seed and the number of draws made from it;
\* _main_rng holds the number of draws, _main_seed the seed.
SetMainRng(s, seed, fresh) ==
    IF seed = None /\ s._main_seed # None
    THEN s
    ELSE [s EXCEPT !._main_seed = IF seed = None THEN fresh ELSE seed,
                   !._main_rng = 0]

SetEpisodeRng(s, seed) ==
    IF seed = None
    THEN [s EXCEPT !._episode_seed = RandInt(s._main_seed, s._main_rng),
                   !._main_rng = @ + 1,
                   !._episode_rng = 0]
    ELSE [s EXCEPT !._episode_seed = seed,
                   !._episode_rng = 0]

-----------------------------------------------------------------------------
(* Reconfiguration: _clear, _setup_scene, _reconfigure *)

NoObject == EmptyDict

\* ManiSkillScene(sub_scenes, ...): a new scene is empty and affects every
\* replica; `visible` are the actors that are rendered
ManiSkillScene(num_envs) ==
    [_reset_mask |-> Full(num_envs, TRUE), actors |-> <<>>, articulations |-> <<>>,
     visible |-> {}]

\* the objects _load_agent, _setup_sensors and render_human create
BaseAgent == [robot |-> "panda", control_mode |-> DefaultControlMode]
Sensors == [base_camera |-> "Camera"]
HumanRenderCameras(layout) == [uid \in layout.human_render_cameras |-> "Camera"]

\* An attribute refers to another instance only once it is assigned one:
\* `built` names the attributes that the current call has assigned an
\* object it constructed.
Build(s, attributes) == [s EXCEPT !.built = @ \cup attributes]
Viewer == [window |-> "open"]

\* a _close_viewer that leaves the window open
CloseViewerNot(s) == s

\* _close_viewer
CloseViewer(s) ==
    IF s._viewer = NoObject
    THEN s
    ELSE [Emit(s, "_viewer.close") EXCEPT !._viewer = NoObject]

\* _clear
Clear(s) ==
    [CloseViewer(Emit(s, "_clear")) EXCEPT
        !.agent = NoObject,
        !._sensors = EmptyDict,
        !._human_render_cameras = EmptyDict,
        !.scene = NoObject,
        !._hidden_objects = <<>>]

\* close
Close(s) == Emit(Clear(s), "gc.collect")

SetupScene(s) ==
    Build([Emit(s, "_setup_scene") EXCEPT !.scene = ManiSkillScene(s.num_envs)],
          {"scene"})

\* _load_agent, _load_scene: the task builds the agent, the actors and the
\* articulations, which are rendered, and names the objects to hide; what it builds it chooses
\* with layout.draws draws from the episode generator and from torch's
LoadScene(s, layout) ==
    [Build(Emit(Emit(s, "_load_agent"), "_load_scene"), {"agent"}) EXCEPT
        !.agent = BaseAgent,
        !.scene.actors = layout.actors,
        !.scene.visible = Range(layout.actors),
        !.scene.articulations = layout.articulations,
        !._hidden_objects = layout.hidden,
        !._episode_rng = @ + layout.draws,
        !.torch.draws = @ + layout.draws]

\* a _setup_sensors that hands out the sensors it made the first time
SetupSensorsCached(s, layout) ==
    [Emit(s, "_setup_sensors") EXCEPT
        !._sensors = Sensors,
        !._human_render_cameras = HumanRenderCameras(layout)]

\* _setup_sensors
SetupSensors(s, layout) ==
    [Build(Emit(s, "_setup_sensors"), {"_sensors", "_human_render_cameras"}) EXCEPT
        !._sensors = Sensors,
        !._human_render_cameras = HumanRenderCameras(layout)]

\* a reconfiguration that sets the sensors up before the GPU
ReconfigureSensorsFirst(s, layout) ==
    LET s1 == LoadScene(SetupScene(Clear(Emit(s, "_reconfigure"))), layout)
        s2 == SetupSensors(Emit(s1, "_load_lighting"), layout)
        s3 == IF s2.gpu_sim_enabled THEN Emit(s2, "_setup_gpu") ELSE s2
    IN  [s3 EXCEPT !._reconfig_counter = s.reconfiguration_freq]

Reconfigure(s, layout) ==
    LET s1 == LoadScene(SetupScene(Clear(Emit(s, "_reconfigure"))), layout)
        s2 == Emit(s1, "_load_lighting")
        s3 == SetupSensors(IF s2.gpu_sim_enabled THEN Emit(s2, "_setup_gpu") ELSE s2,
                           layout)
        s4 == IF s3._viewer # NoObject THEN Emit(s3, "_setup_viewer") ELSE s3
    IN  [s4 EXCEPT !._reconfig_counter = s.reconfiguration_freq]

-----------------------------------------------------------------------------
(* reset *)

\* a reset that forgets that frequency 0 means "never again"
ShouldReconfigureAtZero(s, options) ==
    Get(options, "reconfigure", FALSE) \/ s._reconfig_counter = 0

\* reset, the condition of `if reconfigure:`
ShouldReconfigure(s, options) ==
    Get(options, "reconfigure", FALSE)
        \/ (s._reconfig_counter = 0 /\ s.reconfiguration_freq # 0)

\* the condition under which reset raises the RuntimeError
PartialResetRejected(s, options, reconfigure) ==
    /\ "env_idx" \in DOMAIN options
    /\ Len(options["env_idx"]) # s.num_envs
    /\ reconfigure

\* the replicas env_idx indexes: options["env_idx"] or torch.arange(num_envs)
ResetEnvIdx(s, options) ==
    IF "env_idx" \in DOMAIN options THEN Range(options["env_idx"])
    ELSE Arange(s.num_envs)

\* scene._reset_mask as reset sets it before initialising the episode
RestrictedResetMask(s, options) ==
    IF "env_idx" \in DOMAIN options
    THEN [i \in Arange(s.num_envs) |-> i \in Range(options["env_idx"])]
    ELSE Full(s.num_envs, TRUE)

\* a reset that zeroes every counter, whatever env_idx names
ZeroElapsedAll(elapsed, env_idx) == [i \in DOMAIN elapsed |-> 0]

\* self._elapsed_steps[env_idx] = 0
ZeroElapsed(elapsed, env_idx) ==
    [i \in DOMAIN elapsed |-> IF i \in env_idx THEN 0 ELSE elapsed[i]]

\* scene._gpu_apply_all(), scene._gpu_fetch_all() of _clear_sim_state
GpuApplyFetch(s) ==
    IF s.gpu_sim_enabled
    THEN Emit(Emit(s, "_gpu_apply_all"), "_gpu_fetch_all")
    ELSE s

\* _clear_sim_state: the velocity setters of every actor and articulation,
\* then the GPU buffers.  clear_mask keeps the reset mask the setters ran
\* under.
ClearSimState(s) ==
    GpuApplyFetch([Emit(s, "_clear_sim_state") EXCEPT
                      !.clear_mask = s.scene._reset_mask])

\* a countdown that does not look at the frequency
\* a reset that leaves the counter as the reconfiguration set it
CountDownReconfigSkipped(s) == s

CountDownReconfigAlways(s) == [s EXCEPT !._reconfig_counter = @ - 1]

\* if self.reconfiguration_freq != 0: self._reconfig_counter -= 1
CountDownReconfig(s) ==
    IF s.reconfiguration_freq # 0
    THEN [s EXCEPT !._reconfig_counter = @ - 1]
    ELSE s

\* a reset that leaves the mask as it set it
RestoreResetMaskSkipped(s) == s

\* scene._reset_mask = torch.ones(...) after _initialize_episode
RestoreResetMask(s) ==
    [Emit(s, "scene._reset_mask = ones") EXCEPT !.scene._reset_mask = Full(s.num_envs, TRUE)]

\* if physx.is_gpu_enabled(): apply all, update the kinematics, fetch all
GpuApplyUpdateFetch(s) ==
    IF s.gpu_sim_enabled
    THEN Emit(Emit(Emit(s, "_gpu_apply_all"),
                   "gpu_update_articulation_kinematics"), "_gpu_fetch_all")
    ELSE s

\* for obj in self._hidden_objects: obj.show_visual()
ShowVisual(s) ==
    IF s._hidden_objects = <<>> THEN s
    ELSE [Emit(s, "show_visual") EXCEPT !.scene.visible = @ \cup Range(s._hidden_objects)]

\* for obj in self._hidden_objects: obj.hide_visual()
HideVisual(s) ==
    IF s._hidden_objects = <<>> THEN s
    ELSE [Emit(s, "hide_visual") EXCEPT !.scene.visible = @ \ Range(s._hidden_objects)]

\* what get_obs does with the info, by observation mode; _get_obs_extra is
\* the hook of the task that receives it
Observe(s, info) ==
    IF s._obs_mode = "none"
    THEN s
    ELSE
    IF s._obs_mode \in SensorObsModes
    THEN \* _get_obs_with_sensor_data
         [Emit(Emit(HideVisual(s), "update_render"), "capture_sensor_data")
             EXCEPT !.seen = ("_get_obs_extra" :> info) @@ @]
    ELSE [s EXCEPT !.seen = ("_get_obs_extra" :> info) @@ @]

\* a call of get_obs, which finds the actors rendered or not
EnterGetObs(s) ==
    [Emit(s, "get_obs") EXCEPT !.seen = ("get_obs" :> s.scene.visible) @@ @]

\* a get_obs that computes the info again whatever it is given
GetObsRecomputing(s, info) ==
    Observe(Emit(EnterGetObs(s), "evaluate"), ("elapsed_steps" :> s._elapsed_steps))

\* self.get_obs(info): without an info (NoObject) it calls self.get_info(),
\* and with it evaluate(), here the one of BaseEnv that returns dict(); the
\* info is handed to the observation hooks of the task
GetObs(s, info) ==
    IF info = NoObject
    THEN Observe(Emit(EnterGetObs(s), "evaluate"), ("elapsed_steps" :> s._elapsed_steps))
    ELSE Observe(EnterGetObs(s), info)

\* the generators a hook of the task can draw from
Rng(s) == [torch |-> s.torch, _episode_seed |-> s._episode_seed,
           _episode_rng |-> s._episode_rng]

\* with torch.random.fork_rng(): torch.manual_seed(self._episode_seed),
\* entered for `what`, which finds the generators so
ForkRng(s, what) ==
    LET forked == [s EXCEPT !.torch = [seed |-> s._episode_seed, draws |-> 0]]
    IN  [forked EXCEPT !.seen = (what :> Rng(forked)) @@ @]

\* self._set_main_rng(seed); self._set_episode_rng(seed)
ResetSeeding(s, seed, fresh) == SetEpisodeRng(SetMainRng(s, seed, fresh), seed)

\* a second seeding that draws a new episode seed from the main generator
ReseedDrawing(s) == SetEpisodeRng(s, None)

\* a reset that leaves the episode generator as the reconfiguration left it
ReseedSkipped(s) == s

\* self._set_episode_rng(self._episode_seed)
Reseed(s) == SetEpisodeRng(s, s._episode_seed)

\* an info record that repeats what the options asked for
ResetInfoRequested(options, reconfigure) ==
    [reconfigure |-> Get(options, "reconfigure", FALSE)]

\* dict(reconfigure=reconfigure), the info record reset returns
ResetInfo(options, reconfigure) == [reconfigure |-> reconfigure]

\* an end of reset that observes before the GPU buffers are fetched
ObserveInitialUnfetched(s) ==
    GpuApplyUpdateFetch(GetObs(RestoreResetMask(s), NoObject))

\* the end of reset: the mask restored, the GPU buffers applied and fetched,
\* obs = self.get_obs()
ObserveInitial(s) == GetObs(GpuApplyUpdateFetch(RestoreResetMask(s)), NoObject)

\* reset; `fault` is the collaborator that raises, `layout` what the task
\* loads if the scene is rebuilt
\* self._after_reconfigure(options), which finds the counter as
\* _reconfigure left it
AfterReconfigure(s) ==
    [Emit(s, "_after_reconfigure")
        EXCEPT !.seen = ("_after_reconfigure" :> s._reconfig_counter) @@ @]

\* with torch.random.fork_rng(): ... self._initialize_episode(env_idx, options)
InitializeEpisode(s) ==
    [Emit(ForkRng(s, "_initialize_episode"), "_initialize_episode")
        EXCEPT !.torch = s.torch]

Reset(s0, seed, options, fresh, fault, layout) ==
    LET s1 == ResetSeeding(s0, seed, fresh)
        reconfigure == ShouldReconfigure(s1, options)
        s2 == IF reconfigure
              THEN [AfterReconfigure(Reconfigure(ForkRng(s1, "_reconfigure"), layout))
                       EXCEPT !.torch = s1.torch]
              ELSE s1
    IN  IF PartialResetRejected(s2, options, reconfigure)
        THEN Raise(s2, "RuntimeError")
        ELSE
        IF s2.scene = NoObject
        THEN Raise(s2, "AttributeError")
        ELSE
        LET s3 == [s2 EXCEPT !.scene._reset_mask = RestrictedResetMask(s2, options),
                             !._elapsed_steps = ZeroElapsed(@, ResetEnvIdx(s2, options))]
            s4 == Emit(Reseed(CountDownReconfig(ClearSimState(s3))), "_set_episode_rng")
        IN  IF fault = "agent.reset"
            THEN Raise(Emit(s4, "agent.reset"), "Exception")
            ELSE
            IF fault = "_initialize_episode"
            THEN Raise(InitializeEpisode(Emit(s4, "agent.reset")), "Exception")
            ELSE
            LET s5 == InitializeEpisode(Emit(s4, "agent.reset"))
                s6 == ObserveInitial(s5)
            IN  Return(s6, ResetInfo(options, reconfigure))

-----------------------------------------------------------------------------
(* State save and restore: get_state_dict, get_state, set_state *)

\* The state of an entity: a vector of `size` scalars per replica.  The
\* model holds no physical values; the k-th scalar of entity id is the
\* token <<id, k>>, so that every scalar of a scene differs from every other.
EntityState(id, size) == [k \in 1 .. size |-> <<id, k>>]

\* get_state_dict: scene.get_sim_state(), per section the pairs
\* (entity id, state) in the order of the scene
GetStateDict(s) ==
    [ actors |->
          [j \in DOMAIN s.scene.actors |->
              <<s.scene.actors[j], EntityState(s.scene.actors[j], KINEMATIC_DIM)>>],
      articulations |->
          [j \in DOMAIN s.scene.articulations |->
              <<s.scene.articulations[j][1],
                EntityState(s.scene.articulations[j][1], s.scene.articulations[j][2])>>] ]

RECURSIVE FlattenItems(_)
\* the values of an ordered dict, concatenated
FlattenItems(items) ==
    IF items = <<>> THEN <<>> ELSE Head(items)[2] \o FlattenItems(Tail(items))

\* get_state: flatten_state_dict(get_state_dict())
Flatten(state_dict) ==
    FlattenItems(state_dict.actors) \o FlattenItems(state_dict.articulations)

\* a slice that takes one element more
SliceInclusive(state, start, size) ==
    SubSeq(state, start + 1, IF start + size + 1 < Len(state)
                             THEN start + size + 1 ELSE Len(state))

\* state[:, start : start + size]: a slice ends where the vector ends
Slice(state, start, size) ==
    SubSeq(state, start + 1, IF start + size < Len(state)
                             THEN start + size ELSE Len(state))

RECURSIVE TakeSlices(_, _, _, _)
\* the loops of set_state over the entities of self._init_raw_state: each id
\* gets the next slice, of KINEMATIC_DIM scalars (size 0 here) or of the
\* width of its recorded state
TakeSlices(items, state, start, size) ==
    IF items = <<>>
    THEN <<>>
    ELSE LET n == IF size = 0 THEN Len(Head(items)[2]) ELSE size
         IN  << <<Head(items)[1], Slice(state, start, n)>> >>
                 \o TakeSlices(Tail(items), state, start + n, size)

\* set_state, the state_dict it hands to set_state_dict
StateDictOf(s, state) ==
    [ actors |-> TakeSlices(s._init_raw_state.actors, state, 0, KINEMATIC_DIM),
      articulations |->
          TakeSlices(s._init_raw_state.articulations, state,
                     KINEMATIC_DIM * Len(s._init_raw_state.actors), 0) ]

\* set_state(state): set_state_dict(state_dict), which hands the dictionary
\* to the scene and applies and fetches the GPU buffers
SetState(s, state) ==
    LET s1 == Emit(Emit(s, "set_state_dict"), "set_sim_state")
        s2 == IF s.gpu_sim_enabled
              THEN Emit(Emit(Emit(s1, "_gpu_apply_all"),
                             "gpu_update_articulation_kinematics"), "_gpu_fetch_all")
              ELSE s1
    IN  Return(s2, [state_dict |-> StateDictOf(s, state)])

-----------------------------------------------------------------------------
(* render_human *)

\* obj.show_visual(), obj.hide_visual() for obj in self._hidden_objects
\* render_human; after close there is no scene for a viewer to show
RenderHuman(s0) ==
    LET s1 == ShowVisual(s0)
        s2 == IF s1._viewer = NoObject
              THEN [Emit(s1, "Viewer") EXCEPT !._viewer = Viewer]
              ELSE s1
    IN  IF s1._viewer = NoObject /\ s1.scene = NoObject
        THEN Raise(Emit(s2, "_setup_viewer"), "AttributeError")
        ELSE
        IF s2.gpu_sim_enabled /\ s2.scene = NoObject
        THEN Raise(s2, "AttributeError")
        ELSE
        LET s3 == IF s1._viewer = NoObject THEN Emit(s2, "_setup_viewer") ELSE s2
            s4 == IF s3.gpu_sim_enabled THEN Emit(s3, "sync_poses_gpu_to_cpu") ELSE s3
            s5 == HideVisual(Emit(s4, "_viewer.render"))
        IN  Return(s5, [viewer |-> s5._viewer])

-----------------------------------------------------------------------------
(* render_rgb_array *)

\* camera_name: no name, the name of a camera, a name no camera has
NoCameraName == "None"
CameraNameArgs == {NoCameraName, "render_camera", "no_camera"}

\* the human render cameras the loop of render_rgb_array does not skip
SelectedCameras(s, camera_name) ==
    {name \in DOMAIN s._human_render_cameras :
        camera_name = NoCameraName \/ name = camera_name}

RECURSIVE TakePictures(_, _)
\* the loop over the cameras selected: each takes its picture of what is
\* rendered and the picture is appended to images
TakePictures(s, n) ==
    IF n = 0
    THEN s
    ELSE TakePictures([Emit(s, IF s.gpu_sim_enabled THEN "take_picture" ELSE "capture")
                          EXCEPT !.seen = ("picture" :> s.scene.visible) @@ @],
                      n - 1)

\* render_rgb_array(camera_name); after close there is no scene to update
RenderRgbArray(s0, camera_name) ==
    LET s1 == ShowVisual(s0)
    IN  IF s1.scene = NoObject
        THEN Raise(s1, "AttributeError")
        ELSE
        LET images == Cardinality(SelectedCameras(s1, camera_name))
            s2 == TakePictures(Emit(s1, "update_render"), images)
        IN  IF images = 0
            THEN Return(s2, [images |-> images])
            ELSE
            IF images = 1
            THEN Return(s2, [images |-> images])
            ELSE Return(HideVisual(s2), [images |-> images])

-----------------------------------------------------------------------------
(* __init__ *)

\* sim_backend of the constructor, and its default
SimBackends == {"auto", "cpu", "gpu"}
DefaultBackend == "auto"

\* __init__, from the warning to the RuntimeError: the device, what becomes
\* of the flag of the process (physx.enable_gpu()), the warning logged and
\* the error raised.  The statement under the warning, sim_backend == "gpu",
\* is a comparison: sim_backend stays what the caller passed.
SelectBackend(gpu_enabled, num_envs, sim_backend) ==
    LET gpu == num_envs > 1 \/ sim_backend = "gpu"
    IN  [ warned |-> gpu_enabled /\ num_envs = 1 /\ sim_backend \in {"auto", "cpu"},
          gpu_enabled |-> gpu_enabled \/ gpu,
          device |-> IF gpu THEN "cuda" ELSE "cpu",
          raised |-> IF sim_backend = "cpu" /\ num_envs > 1
                     THEN "RuntimeError" ELSE NoError ]

\* what a constructor call did: its arguments, the flag of the process
\* before and after it, and whether it went on to build a scene (in the
\* reset that ends __init__)
Constructed(gpu_enabled, num_envs, sim_backend) ==
    LET b == SelectBackend(gpu_enabled, num_envs, sim_backend)
    IN  [ num_envs |-> num_envs,
          sim_backend |-> sim_backend,
          gpu_before |-> gpu_enabled,
          gpu_after |-> b.gpu_enabled,
          warned |-> b.warned,
          device |-> b.device,
          raised |-> b.raised,
          scene_built |-> b.raised = NoError ]

\* a ratio rounded up
SimStepsPerControlCeil(sim_freq, control_freq) ==
    (sim_freq + control_freq - 1) \div control_freq

\* self._sim_steps_per_control = self._sim_freq // self._control_freq
SimStepsPerControl(sim_freq, control_freq) == sim_freq \div control_freq

\* the attributes as __init__ has set them when it calls self._set_main_rng
NewEnv(num_envs, reconfiguration_freq, freqs, reward, obs_mode, loads) ==
    [ num_envs |-> num_envs,
      reconfiguration_freq |-> reconfiguration_freq,
      _obs_mode |-> obs_mode,
      _reward_mode |-> reward[1],
      overrides |-> reward[2],
      loads |-> loads,
      _init_raw_state |-> NoObject,
      device |-> SelectBackend(FALSE, num_envs, DefaultBackend).device,
      gpu_sim_enabled |-> SelectBackend(FALSE, num_envs, DefaultBackend).gpu_enabled,
      agent |-> NoObject,
      _sensors |-> EmptyDict,
      _human_render_cameras |-> EmptyDict,
      _hidden_objects |-> <<>>,
      _viewer |-> NoObject,
      clear_mask |-> NoObject,
      _reconfig_counter |-> 0,
      _sim_freq |-> freqs[1],
      _control_freq |-> freqs[2],
      freq_warning |-> (freqs[1] % freqs[2] # 0),
      _sim_steps_per_control |-> SimStepsPerControl(freqs[1], freqs[2]),
      _main_seed |-> None,
      _main_rng |-> None,
      _episode_seed |-> None,
      _episode_rng |-> None,
      torch |-> [seed |-> None, draws |-> 0],
      _elapsed_steps |-> Full(num_envs, 0),
      scene |-> NoObject,
      trace |-> <<>>,
      seen |-> EmptyDict,
      built |-> {},
      raised |-> NoError,
      ret |-> EmptyDict ]

\* a constructor that leaves the seeding to its first reset
ConstructUnseeded(num_envs, reconfiguration_freq, freqs, reward, obs_mode, loads, fresh, layout) ==
    LET s == Reset(NewEnv(num_envs, reconfiguration_freq, freqs, reward, obs_mode, loads),
                   None, [reconfigure |-> TRUE], fresh, "none", layout)
    IN  [s EXCEPT !._init_raw_state = GetStateDict(s)]

\* __init__ from self._set_main_rng(2022) on: the first reset, then
\* self._init_raw_state = self.get_state_dict()
Construct(num_envs, reconfiguration_freq, freqs, reward, obs_mode, loads, fresh, layout) ==
    LET s == Reset(SetMainRng(NewEnv(num_envs, reconfiguration_freq, freqs, reward, obs_mode,
                                     loads),
                              ConstructionSeed, fresh),
                   ConstructionSeed, [reconfigure |-> TRUE], fresh, "none", layout)
    IN  [s EXCEPT !._init_raw_state = GetStateDict(s)]

-----------------------------------------------------------------------------
(* step *)

RECURSIVE SimLoopFetching(_, _)
\* a loop that fetches the GPU results in every sub-step
SimLoopFetching(s, n) ==
    IF n <= 0
    THEN s
    ELSE SimLoopFetching(
             Emit(Hook(Emit(Hook(Emit(s, "agent.before_simulation_step"),
                                 "_before_simulation_step"),
                            "scene.step"),
                       "_after_simulation_step"),
                  "_gpu_fetch_all"),
             n - 1)

RECURSIVE SimLoop(_, _)
\* for _ in range(self._sim_steps_per_control): ...
SimLoop(s, n) ==
    IF n <= 0
    THEN s
    ELSE SimLoop(Hook(Emit(Hook(Emit(s, "agent.before_simulation_step"),
                                "_before_simulation_step"),
                           "scene.step"),
                      "_after_simulation_step"),
                 n - 1)

\* self.agent.set_action(action) and, on the GPU, the targets applied
SetAction(s) ==
    IF s.gpu_sim_enabled
    THEN Emit(Emit(Emit(s, "agent.set_action"),
                   "gpu_apply_articulation_target_position"),
              "gpu_apply_articulation_target_velocity")
    ELSE Emit(s, "agent.set_action")

\* a step that swaps the controller whatever the mode asked for
SetControlModeAlways(s, control_mode) ==
    [Emit(Emit(s, "agent.set_control_mode"), "agent.controller.reset")
        EXCEPT !.agent.control_mode = control_mode]

\* if action["control_mode"] != self.agent.control_mode: ...
SetControlMode(s, control_mode) ==
    IF control_mode # s.agent.control_mode
    THEN [Emit(Emit(s, "agent.set_control_mode"), "agent.controller.reset")
             EXCEPT !.agent.control_mode = control_mode]
    ELSE s

\* _step_action once the type of the action is accepted
ApplyAction(s, action, control_mode) ==
    LET s1 == IF action = "None" THEN s
              ELSE IF action = "dict" THEN SetAction(SetControlMode(s, control_mode))
              ELSE SetAction(s)
        s2 == SimLoop(Hook(s1, "_before_control_step"), s._sim_steps_per_control)
        s3 == Hook(s2, "_after_control_step")
    IN  IF s.gpu_sim_enabled THEN Emit(s3, "_gpu_fetch_all") ELSE s3

\* an increment written for one replica
IncrementElapsedFirst(elapsed) ==
    [i \in DOMAIN elapsed |-> IF i = 0 THEN elapsed[i] + 1 ELSE elapsed[i]]

\* self._elapsed_steps += 1
IncrementElapsed(elapsed) == [i \in DOMAIN elapsed |-> elapsed[i] + 1]

\* get_info: elapsed_steps, updated with what evaluate() returns
GetInfo(s, evaluate) == evaluate @@ ("elapsed_steps" :> s._elapsed_steps)

\* success and fail combined with logical_and
TerminatedAnd(s, info) ==
    IF "success" \in DOMAIN info
    THEN IF "fail" \in DOMAIN info
         THEN [i \in Arange(s.num_envs) |-> info["success"][i] /\ info["fail"][i]]
         ELSE info["success"]
    ELSE IF "fail" \in DOMAIN info
         THEN info["fail"]
         ELSE Full(s.num_envs, FALSE)

\* step, the if/else on "success" in info and "fail" in info
Terminated(s, info) ==
    IF "success" \in DOMAIN info
    THEN IF "fail" \in DOMAIN info
         THEN [i \in Arange(s.num_envs) |-> info["success"][i] \/ info["fail"][i]]
         ELSE info["success"]
    ELSE IF "fail" \in DOMAIN info
         THEN info["fail"]
         ELSE Full(s.num_envs, FALSE)

\* the truncated value step returns
Truncated(s) == Full(s.num_envs, FALSE)

\* What a function gave back: a value, or the exception that left it
Value(v) == [raised |-> NoError, value |-> v]
Failure(exc) == [raised |-> exc, value |-> None]

\* A tensor with one element per replica.  A bool tensor holds booleans, a
\* float tensor numbers.
Tensor(dtype, data) == [dtype |-> dtype, data |-> data]

\* tensor.to(torch.float) of a bool tensor
ToFloat(b) == [i \in DOMAIN b |-> IF b[i] THEN 1 ELSE 0]

\* -tensor: torch refuses the unary minus on a bool tensor (RuntimeError)
Neg(t) ==
    IF t.dtype = "bool"
    THEN Failure("RuntimeError")
    ELSE Value(Tensor(t.dtype, [i \in DOMAIN t.data |-> 0 - t.data[i]]))

\* compute_sparse_reward; evaluate() gives success and fail as bool tensors
ComputeSparseReward(s, info) ==
    IF "success" \in DOMAIN info
    THEN IF "fail" \in DOMAIN info
         THEN Value(Tensor("float",
                  [i \in Arange(s.num_envs) |->
                      ToFloat(info["success"])[i] - ToFloat(info["fail"])[i]]))
         ELSE Value(Tensor("bool", info["success"]))
    ELSE IF "fail" \in DOMAIN info
         THEN Neg(Tensor("bool", info["fail"]))
         ELSE Value(Tensor("float", Full(s.num_envs, 0)))

\* compute_dense_reward, compute_normalized_dense_reward: BaseEnv's raise,
\* a task's override gives the task's reward
ComputeDenseReward(s, hook) ==
    IF hook \in s.overrides
    THEN Value(Tensor("float", hook))
    ELSE Failure("NotImplementedError")

\* a get_reward without the branch of reward mode "none"
GetRewardNoneUnsupported(s, info) ==
    IF s._reward_mode = "sparse"
    THEN ComputeSparseReward(s, info)
    ELSE
    IF s._reward_mode = "dense"
    THEN ComputeDenseReward(s, "compute_dense_reward")
    ELSE
    IF s._reward_mode = "normalized_dense"
    THEN ComputeDenseReward(s, "compute_normalized_dense_reward")
    ELSE Failure("NotImplementedError")

\* get_reward
GetReward(s, info) ==
    IF s._reward_mode = "sparse"
    THEN ComputeSparseReward(s, info)
    ELSE
    IF s._reward_mode = "dense"
    THEN ComputeDenseReward(s, "compute_dense_reward")
    ELSE
    IF s._reward_mode = "normalized_dense"
    THEN ComputeDenseReward(s, "compute_normalized_dense_reward")
    ELSE
    IF s._reward_mode = "none"
    THEN Value(Tensor("float", Full(s.num_envs, 0)))
    ELSE Failure("NotImplementedError")

\* a step that counts itself before it looks at the action
RejectActionCounted(s) ==
    Raise([s EXCEPT !._elapsed_steps = IncrementElapsed(@)], "TypeError")

\* raise TypeError(type(action))
RejectAction(s) == Raise(s, "TypeError")

Step(s0, action, control_mode, evaluate) ==
    IF action \notin {"None", "ndarray", "dict"}
    THEN RejectAction(s0)
    ELSE
    IF s0.agent = NoObject
    THEN \* after close, the first use of self.agent fails
         Raise(IF action = "None" THEN Emit(s0, "_before_control_step") ELSE s0,
               "AttributeError")
    ELSE
    LET s1 == ApplyAction(s0, action, control_mode)
        s2 == [s1 EXCEPT !._elapsed_steps = IncrementElapsed(@)]
        info == GetInfo(s2, evaluate)
        s3 == [Emit(GetObs(Emit(s2, "evaluate"), info), "get_reward")
                  EXCEPT !.seen = ("get_reward" :> info) @@ @]
        reward == GetReward(s3, info)
    IN  IF reward.raised # NoError
        THEN Raise(s3, reward.raised)
        ELSE Return(s3, [reward |-> reward.value,
                         terminated |-> Terminated(s3, info),
                         truncated |-> Truncated(s3),
                         info |-> info])

-----------------------------------------------------------------------------
(* The state machine: a constructed environment and the calls made on it *)

SeedingFields == {"_main_seed", "_main_rng", "_episode_seed", "_episode_rng"}

SeedingOf(s) == [f \in SeedingFields |-> s[f]]

\* the values the unseeded generator of _set_main_rng can give, where it is used
FreshFor(s, seed) ==
    IF seed = None /\ s._main_seed = None THEN FreshSeeds ELSE {0}

\* The state after construction, for the given constructor arguments, of
\* an environment of num_envs replicas, the first of its process
InitWith(num_envs, reconfiguration_freqs, freq_args, reward_args, obs_modes, load_args) ==
    /\ held_info = NoObject
    /\ \E reconfiguration_freq \in reconfiguration_freqs, freqs \in freq_args,
          reward \in reward_args, obs_mode \in obs_modes, loads \in load_args,
          fresh \in FreshSeeds, fresh2 \in FreshSeeds :
       \E layout \in loads :
           /\ env = Construct(num_envs, reconfiguration_freq, freqs, reward, obs_mode,
                              loads, fresh, layout)
           /\ twin = SeedingOf(Construct(num_envs, reconfiguration_freq, freqs, reward,
                                         obs_mode, loads,
                                         fresh2, layout))
           /\ call = [op |-> "__init__"]
           /\ steps_since_reset = Full(num_envs, 0)
           /\ terminated_before = Full(num_envs, FALSE)
           /\ reset_returned = TRUE
           /\ physx_gpu_enabled = SelectBackend(FALSE, num_envs, DefaultBackend).gpu_enabled
           /\ constructed = <<Constructed(FALSE, num_envs, DefaultBackend)>>
           /\ resets_since_reconfigure = 0

\* the same for an environment of NumEnvs replicas
InitOn(reconfiguration_freqs, freq_args, reward_args, obs_modes, load_args) ==
    InitWith(NumEnvs, reconfiguration_freqs, freq_args, reward_args, obs_modes, load_args)

\* What the caller reads in an info record it has kept: get_info() puts
\* self.elapsed_steps itself in the record when the GPU is not enabled
\* (`shared`), and a clone of it when it is; step and reset change that
\* tensor in place.
Reread(held, s) ==
    IF held = NoObject \/ ~held.shared
    THEN held
    ELSE [held EXCEPT !.now = ("elapsed_steps" :> s._elapsed_steps) @@ @]

\* env.reset(seed, options), the collaborators behaving as `fault` says
ResetCall(seeds, optionses, faults) ==
    \E seed \in seeds, options \in optionses, fault \in faults :
    \E fresh \in FreshFor(env, seed), fresh2 \in FreshFor(twin, seed),
       layout \in env.loads :
        LET named == IF "env_idx" \in DOMAIN options
                     THEN {i \in Arange(env.num_envs) :
                              \E k \in DOMAIN options["env_idx"] :
                                  options["env_idx"][k] = i}
                     ELSE Arange(env.num_envs)
        IN
        /\ seed = None => env._main_rng < MaxDraws
        /\ env' = Reset(Enter(env), seed, options, fresh, fault, layout)
        /\ twin' = Reseed(ResetSeeding(twin, seed, fresh2))
        /\ call' = [op |-> "reset", seed |-> seed, options |-> options]
        /\ reset_returned' = (env'.raised = NoError)
        /\ steps_since_reset' =
               IF env'.raised = "RuntimeError" THEN steps_since_reset
               ELSE [i \in Arange(env.num_envs) |->
                        IF i \in named THEN 0 ELSE steps_since_reset[i]]
        /\ terminated_before' =
               IF env'.raised = "RuntimeError" THEN terminated_before
               ELSE [i \in Arange(env.num_envs) |->
                        i \notin named /\ terminated_before[i]]
        /\ resets_since_reconfigure' =
               IF Count(env'.trace, "_reconfigure") > 0 \/ env.reconfiguration_freq = 0
               THEN 0
               ELSE resets_since_reconfigure + 1
        /\ held_info' = Reread(held_info, env')
        /\ UNCHANGED <<physx_gpu_enabled, constructed>>

\* env.step(action), evaluate() returning `evaluate`; control_mode is the
\* action["control_mode"] of an action that is a dict
StepCall(actions, evaluates) ==
    \E action \in actions, evaluate \in evaluates :
    \E control_mode \in IF action = "dict" THEN ControlModes ELSE {DefaultControlMode} :
        /\ \A i \in Arange(env.num_envs) : env._elapsed_steps[i] < MaxElapsed
        /\ env' = Step(Enter(env), action, control_mode, evaluate)
        /\ call' = [op |-> "step", action |-> action, control_mode |-> control_mode,
                    evaluate |-> evaluate]
        /\ steps_since_reset' =
               IF env'.raised \notin {"TypeError", "AttributeError"}
               THEN [i \in Arange(env.num_envs) |-> steps_since_reset[i] + 1]
               ELSE steps_since_reset
        /\ terminated_before' =
               IF env'.raised = NoError
               THEN [i \in Arange(env.num_envs) |->
                        terminated_before[i] \/ env'.ret.terminated[i]]
               ELSE terminated_before
        /\ held_info' = Reread(held_info, env')
        /\ UNCHANGED <<twin, reset_returned, physx_gpu_enabled, constructed,
                       resets_since_reconfigure>>

\* env.set_state(env.get_state())
SetStateCall ==
    /\ env' = SetState(Enter(env), Flatten(GetStateDict(env)))
    /\ call' = [op |-> "set_state"]
    /\ UNCHANGED <<twin, steps_since_reset, terminated_before, reset_returned,
                   physx_gpu_enabled, constructed, resets_since_reconfigure,
                   held_info>>

\* env.render_human()
RenderHumanCall ==
    /\ env' = RenderHuman(Enter(env))
    /\ call' = [op |-> "render_human"]
    /\ UNCHANGED <<twin, steps_since_reset, terminated_before, reset_returned,
                   physx_gpu_enabled, constructed, resets_since_reconfigure,
                   held_info>>

\* env.render_rgb_array(camera_name)
RenderRgbArrayCall(camera_names) ==
    \E camera_name \in camera_names :
        /\ env' = RenderRgbArray(Enter(env), camera_name)
        /\ call' = [op |-> "render_rgb_array", camera_name |-> camera_name]
        /\ UNCHANGED <<twin, steps_since_reset, terminated_before, reset_returned,
                       physx_gpu_enabled, constructed, resets_since_reconfigure,
                       held_info>>

\* env.close()
CloseCall ==
    /\ env' = Close(Enter(env))
    /\ call' = [op |-> "close"]
    /\ UNCHANGED <<twin, steps_since_reset, terminated_before, reset_returned,
                   physx_gpu_enabled, constructed, resets_since_reconfigure,
                   held_info>>

\* The start of a process: GPU simulation is not enabled and no environment
\* is constructed
InitProcess ==
    /\ held_info = NoObject
    /\ physx_gpu_enabled = FALSE
    /\ constructed = <<>>
    /\ env = NoObject
    /\ twin = NoObject
    /\ call = [op |-> "import"]
    /\ steps_since_reset = ZeroSteps
    /\ terminated_before = Zeros
    /\ reset_returned = TRUE
    /\ resets_since_reconfigure = 0

\* the caller keeps the info record that the step it has just made returned
HoldInfoCall ==
    /\ call.op = "step"
    /\ env.raised = NoError
    /\ held_info = NoObject
    /\ held_info' = [returned |-> env.ret.info, now |-> env.ret.info,
                     shared |-> ~physx_gpu_enabled]
    /\ UNCHANGED <<env, call, twin, steps_since_reset, terminated_before,
                   reset_returned, physx_gpu_enabled, constructed,
                   resets_since_reconfigure>>

\* BaseEnv(num_envs=..., sim_backend=...), one more environment in the
\* process; `env` becomes the new environment if it has NumEnvs replicas
ConstructCall(num_envs_args, sim_backends) ==
    \E num_envs \in num_envs_args, sim_backend \in sim_backends :
        LET c == Constructed(physx_gpu_enabled, num_envs, sim_backend)
            new == c.raised = NoError /\ num_envs = NumEnvs
        IN
        /\ Len(constructed) < MaxConstructions
        /\ constructed' = Append(constructed, c)
        /\ physx_gpu_enabled' = c.gpu_after
        /\ call' = [op |-> "__init__", num_envs |-> num_envs, sim_backend |-> sim_backend]
        /\ env' = IF new
                  THEN Construct(num_envs, 0, <<100, 20>>, NoReward, DefaultObsMode, {DefaultLayout},
                                 0, DefaultLayout)
                  ELSE env
        /\ steps_since_reset' = IF new THEN ZeroSteps ELSE steps_since_reset
        /\ terminated_before' = IF new THEN Zeros ELSE terminated_before
        /\ reset_returned' = (new \/ reset_returned)
        /\ UNCHANGED <<twin, resets_since_reconfigure, held_info>>

(* Resets in every form (options, env_idx, failing collaborators), between
   steps of one kind. *)
Init == InitOn(0 .. MaxFreq, {<<100, 20>>}, {NoReward}, {DefaultObsMode}, {{DefaultLayout}})

Next ==
    \/ ResetCall({ConstructionSeed}, ResetOptions, ResetFaults)
    \/ StepCall({"ndarray"}, {EmptyDict})

Spec == Init /\ [][Next]_vars

(* Steps with every result of evaluate(), between full and partial resets
   that return. *)
InitEvaluate == InitOn({0}, {<<100, 20>>}, {NoReward}, {DefaultObsMode}, {{DefaultLayout}})

NextEvaluate ==
    \/ ResetCall({ConstructionSeed},
                 {EmptyDict} \cup {[env_idx |-> e] : e \in EnvIdxArgs}, {"none"})
    \/ StepCall({"None", "str"}, EvaluateResults)

SpecEvaluate == InitEvaluate /\ [][NextEvaluate]_vars

(* Steps with every type of action, under every pair of frequencies. *)
InitAction == InitOn({0}, FreqArgs, {NoReward}, {DefaultObsMode}, {{DefaultLayout}})

NextAction ==
    \/ ResetCall({None}, {EmptyDict, [env_idx |-> <<0>>]}, {"none"})
    \/ StepCall(ActionArgs, {EmptyDict, [success |-> Ones]})

SpecAction == InitAction /\ [][NextAction]_vars

(* Resets with and without every seed, in resets of a few kinds. *)
InitSeeding == InitOn({0, 1}, {<<100, 20>>}, {NoReward}, {DefaultObsMode}, {{DefaultLayout}})

NextSeeding ==
    \/ ResetCall(SeedArgs,
                 {EmptyDict, [reconfigure |-> TRUE], [env_idx |-> <<0>>]},
                 ResetFaults)
    \/ StepCall({"None"}, {EmptyDict})

SpecSeeding == InitSeeding /\ [][NextSeeding]_vars

(* Steps under every reward mode, on tasks with and without the dense hooks,
   with every result of evaluate(). *)
InitReward == InitOn({0}, {<<100, 20>>}, RewardArgs, {DefaultObsMode}, {{DefaultLayout}})

NextReward ==
    \/ ResetCall({ConstructionSeed}, {EmptyDict}, {"none"})
    \/ StepCall({"ndarray"}, EvaluateResults)

SpecReward == InitReward /\ [][NextReward]_vars

(* States saved and restored between resets that rebuild the scene, on a
   task whose scene differs from one reconfiguration to the next. *)
InitState == InitOn({0, 1}, {<<100, 20>>}, {NoReward}, {DefaultObsMode}, {SceneLayouts})

NextState ==
    \/ ResetCall({ConstructionSeed}, {EmptyDict, [reconfigure |-> TRUE]}, {"none"})
    \/ StepCall({"None"}, {EmptyDict})
    \/ SetStateCall

SpecState == InitState /\ [][NextState]_vars

(* Environments closed, once and again, between resets, steps and renders
   in a viewer, on a task with and without hidden objects. *)
InitClose == InitOn({0, 1}, {<<100, 20>>}, {NoReward}, {DefaultObsMode}, {SceneLayouts})

NextClose ==
    \/ ResetCall({ConstructionSeed}, {EmptyDict, [reconfigure |-> TRUE]}, ResetFaults)
    \/ StepCall({"None", "ndarray"}, {EmptyDict})
    \/ RenderHumanCall
    \/ CloseCall

SpecClose == InitClose /\ [][NextClose]_vars

(* Environments constructed one after the other in one process, with every
   number of replicas and every backend. *)
NextProcess == ConstructCall(1 .. NumEnvs, SimBackends)

SpecProcess == InitProcess /\ [][NextProcess]_vars

(* Resets with and without seed that rebuild the scene, on a task whose
   reconfiguration draws more or less from the generators. *)
InitEpisode == InitOn({0, 1}, {<<100, 20>>}, {NoReward}, {DefaultObsMode}, {SceneLayouts})

NextEpisode ==
    \/ ResetCall(SeedArgs, {EmptyDict, [reconfigure |-> TRUE]}, {"none"})
    \/ StepCall({"None"}, {EmptyDict})

SpecEpisode == InitEpisode /\ [][NextEpisode]_vars

(* Resets and steps under every observation mode, on a task with and
   without hidden objects. *)
InitObs ==
    InitOn({0}, {<<100, 20>>}, {NoReward}, Range(SUPPORTED_OBS_MODES), {SceneLayouts})

NextObs ==
    \/ ResetCall({ConstructionSeed}, {EmptyDict, [reconfigure |-> TRUE]}, {"none"})
    \/ StepCall({"ndarray"}, {EmptyDict})

SpecObs == InitObs /\ [][NextObs]_vars

(* Resets that ask for nothing and return, with and without seed, of
   environments that reconfigure every reset or every few resets. *)
InitFreq ==
    InitOn(1 .. MaxFreq, {<<100, 20>>}, {NoReward}, {DefaultObsMode}, {SceneLayouts})

NextFreq ==
    \/ ResetCall(SeedArgs, {EmptyDict}, {"none"})
    \/ StepCall({"None"}, {EmptyDict})

SpecFreq == InitFreq /\ [][NextFreq]_vars

(* Info records kept by the caller over later steps and resets, of an
   environment of one replica, which is on the CPU, and of one of NumEnvs
   replicas, which is on the GPU. *)
InitInfo ==
    \/ InitWith(1, {0, 1}, {<<100, 20>>}, {NoReward}, {DefaultObsMode}, {{DefaultLayout}})
    \/ InitWith(NumEnvs, {0, 1}, {<<100, 20>>}, {NoReward}, {DefaultObsMode},
                {{DefaultLayout}})

NextInfo ==
    \/ ResetCall({ConstructionSeed}, {EmptyDict, [env_idx |-> <<0>>]}, {"none"})
    \/ StepCall({"None", "ndarray"}, {EmptyDict})
    \/ HoldInfoCall

SpecInfo == InitInfo /\ [][NextInfo]_vars

-----------------------------------------------------------------------------
(* StackCube (mani_skill2/envs/tasks/stack_cube.py): evaluate and the dense
   rewards.  The numbers are fractions <<numerator, denominator>> with a
   positive denominator. *)

Zero == <<0, 1>>
One == <<1, 1>>
Num(k) == <<k, 1>>
Plus(a, b) == <<a[1] * b[2] + b[1] * a[2], a[2] * b[2]>>
Minus(a, b) == <<a[1] * b[2] - b[1] * a[2], a[2] * b[2]>>
Times(k, a) == <<k * a[1], a[2]>>
DividedBy(a, k) == <<a[1], a[2] * k>>
Leq(a, b) == a[1] * b[2] <= b[1] * a[2]
Same(a, b) == a[1] * b[2] = b[1] * a[2]

\* tensors of num_envs numbers between 0 and 1: all 0, all 1, 0 and 1 in turn
UnitTensors(num_envs) ==
    {Full(num_envs, Zero), Full(num_envs, One),
     [i \in Arange(num_envs) |-> IF i % 2 = 0 THEN Zero ELSE One]}

\* What the task reads from the simulation of num_envs replicas: the flags
\* that evaluate computes from the poses or asks the actors and the agent,
\* tanh of the distances and of the velocity, and the opening of the
\* gripper, the sum of the finger positions divided by the gripper width
StackCubeScenes(num_envs) ==
    [ num_envs : {num_envs},
      xy_flag : [Arange(num_envs) -> BOOLEAN],
      z_flag : {Full(num_envs, TRUE), Full(num_envs, FALSE)},
      is_cubeA_static : [Arange(num_envs) -> BOOLEAN],
      is_cubeA_grasped : [Arange(num_envs) -> BOOLEAN],
      tanh_cubeA_to_tcp : UnitTensors(num_envs),
      tanh_cubeA_to_goal : UnitTensors(num_envs),
      gripper_opening : UnitTensors(num_envs),
      tanh_velocity : UnitTensors(num_envs) ]

\* reward[mask] = value[mask]
Masked(reward, mask, value) ==
    [i \in DOMAIN reward |-> IF mask[i] THEN value[i] ELSE reward[i]]

\* evaluate
StackCubeEvaluate(s) ==
    LET is_cubeA_on_cubeB == [i \in Arange(s.num_envs) |-> s.xy_flag[i] /\ s.z_flag[i]]
    IN  [ is_cubeA_grasped |-> s.is_cubeA_grasped,
          is_cubeA_on_cubeB |-> is_cubeA_on_cubeB,
          is_cubeA_static |-> s.is_cubeA_static,
          success |-> [i \in Arange(s.num_envs) |->
                          /\ is_cubeA_on_cubeB[i]
                          /\ s.is_cubeA_static[i]
                          /\ ~s.is_cubeA_grasped[i]] ]

\* a dense reward that writes the success stage before the stage of cubeA
\* on cubeB
StackCubeDenseRewardSuccessFirst(s, info) ==
    LET reaching == [i \in Arange(s.num_envs) |->
                        Times(2, Minus(One, s.tanh_cubeA_to_tcp[i]))]
        place_reward == [i \in Arange(s.num_envs) |->
                            Minus(One, s.tanh_cubeA_to_goal[i])]
        grasped == Masked(reaching, info.is_cubeA_grasped,
                          [i \in Arange(s.num_envs) |-> Plus(Num(4), place_reward[i])])
        ungrasp_reward == Masked(s.gripper_opening,
                                 [i \in Arange(s.num_envs) |-> ~info.is_cubeA_grasped[i]],
                                 Full(s.num_envs, One))
        static_reward == [i \in Arange(s.num_envs) |-> Minus(One, s.tanh_velocity[i])]
        succeeded == Masked(grasped, info.success, Full(s.num_envs, Num(8)))
    IN  Masked(succeeded, info.is_cubeA_on_cubeB,
               [i \in Arange(s.num_envs) |->
                   Plus(Num(6), DividedBy(Plus(ungrasp_reward[i], static_reward[i]), 2))])

\* compute_dense_reward
StackCubeDenseReward(s, info) ==
    LET reaching == [i \in Arange(s.num_envs) |->
                        Times(2, Minus(One, s.tanh_cubeA_to_tcp[i]))]
        place_reward == [i \in Arange(s.num_envs) |->
                            Minus(One, s.tanh_cubeA_to_goal[i])]
        grasped == Masked(reaching, info.is_cubeA_grasped,
                          [i \in Arange(s.num_envs) |-> Plus(Num(4), place_reward[i])])
        ungrasp_reward == Masked(s.gripper_opening,
                                 [i \in Arange(s.num_envs) |-> ~info.is_cubeA_grasped[i]],
                                 Full(s.num_envs, One))
        static_reward == [i \in Arange(s.num_envs) |-> Minus(One, s.tanh_velocity[i])]
        on_cubeB == Masked(grasped, info.is_cubeA_on_cubeB,
                           [i \in Arange(s.num_envs) |->
                               Plus(Num(6),
                                    DividedBy(Plus(ungrasp_reward[i], static_reward[i]), 2))])
    IN  Masked(on_cubeB, info.success, Full(s.num_envs, Num(8)))

\* compute_normalized_dense_reward
StackCubeNormalizedDenseReward(s, info) ==
    LET reward == StackCubeDenseReward(s, info)
    IN  [i \in DOMAIN reward |-> DividedBy(reward[i], 8)]

\* A StackCube environment of NumEnvs replicas in one of its scenes; the
\* other variables are those of an environment nothing was called on.
InitStackCube ==
    /\ env \in StackCubeScenes(NumEnvs)
    /\ call = [op |-> "__init__"]
    /\ twin = NoObject
    /\ steps_since_reset = ZeroSteps
    /\ terminated_before = Zeros
    /\ reset_returned = TRUE
    /\ physx_gpu_enabled = TRUE
    /\ constructed = <<>>
    /\ resets_since_reconfigure = 0
    /\ held_info = NoObject

\* env.evaluate(obs)
StackCubeEvaluateCall ==
    /\ call' = [op |-> "evaluate", ret |-> StackCubeEvaluate(env)]
    /\ UNCHANGED <<env, twin, steps_since_reset, terminated_before, reset_returned,
                   physx_gpu_enabled, constructed, resets_since_reconfigure, held_info>>

\* env.compute_dense_reward(obs, action, info), info what evaluate returns
StackCubeDenseRewardCall ==
    /\ call' = [op |-> "compute_dense_reward", info |-> StackCubeEvaluate(env),
                ret |-> StackCubeDenseReward(env, StackCubeEvaluate(env))]
    /\ UNCHANGED <<env, twin, steps_since_reset, terminated_before, reset_returned,
                   physx_gpu_enabled, constructed, resets_since_reconfigure, held_info>>

\* env.compute_normalized_dense_reward(obs, action, info)
StackCubeNormalizedDenseRewardCall ==
    /\ call' = [op |-> "compute_normalized_dense_reward",
                info |-> StackCubeEvaluate(env),
                ret |-> StackCubeNormalizedDenseReward(env, StackCubeEvaluate(env))]
    /\ UNCHANGED <<env, twin, steps_since_reset, terminated_before, reset_returned,
                   physx_gpu_enabled, constructed, resets_since_reconfigure, held_info>>

NextStackCube ==
    \/ StackCubeEvaluateCall
    \/ StackCubeDenseRewardCall
    \/ StackCubeNormalizedDenseRewardCall

SpecStackCube == InitStackCube /\ [][NextStackCube]_vars

-----------------------------------------------------------------------------
(* VR teleoperation of the fetch robot
   (mani_skill/examples/teleoperation/vr_fetch.py): main and the loops of
   collect_episode, one action per poll of the controller.  `pc` is the
   position in the program, `trace` the calls made since the last poll. *)

\* what vr.get_user_action() returns, "None" for None
UserActions == {"None", "quit", "reset", "trigger_1", "trigger_2"}

\* a switch that goes back from ee to calibrate_ee
SwitchModeBack(mode) ==
    IF mode = "mobile" THEN "calibrate_ee"
    ELSE IF mode = "calibrate_ee" THEN "ee"
    ELSE IF mode = "ee" THEN "calibrate_ee"
    ELSE mode

\* the if/elif on mode after a trigger_2
SwitchMode(mode) ==
    IF mode = "mobile" THEN "calibrate_ee"
    ELSE IF mode = "calibrate_ee" THEN "ee"
    ELSE IF mode = "ee" THEN "mobile"
    ELSE mode

\* gym.make(..., control_mode="pd_ee_pose_quat", ...) and the wrapper, as
\* main has them before its loop
Teleop ==
    [ pc |-> "main",
      eps_id |-> 0,
      mode |-> "None",
      gripper_action |-> 0,
      user_action |-> "None",
      pending |-> "None",
      control_mode |-> "pd_ee_pose_quat",
      elapsed_steps |-> 0,
      trace |-> <<>>,
      ret |-> "None" ]

\* env.step(dict(control_mode=control_mode, action=action)): the agent
\* changes to the control mode requested if it has another
TeleopStep(s, control_mode) ==
    [Emit(Emit(s, "env.step"), control_mode) EXCEPT
        !.control_mode = control_mode,
        !.elapsed_steps = @ + 1]

\* the start of an iteration of the second loop of collect_episode, up to
\* the if/elif on user_action
Polled(s, user_action) ==
    [Emit(Emit(Emit([s EXCEPT !.trace = <<>>, !.user_action = user_action],
                    "get_user_action"), "show_visual"), "vr.render")
        EXCEPT !.pending = "None"]

\* the rest of an iteration, from `action = env.action_space.sample() * 0`:
\* the base action by mode, and the step unless the mode is calibrate_ee
FinishIteration(s) ==
    LET s1 == [s EXCEPT !.pc = "poll"]
    IN  IF s1.mode # "calibrate_ee"
        THEN IF s1.mode = "ee"
             THEN TeleopStep(s1, "pd_ee_pose_quat")
             ELSE IF s1.mode = "mobile"
                  THEN TeleopStep(s1, "pd_joint_pos")
                  ELSE s1
        ELSE s1

\* one iteration up to its end or to the loop that waits for the trigger
\* to be released
Iteration(s0, user_action) ==
    LET s1 == Polled(s0, user_action)
    IN  IF user_action = "quit"
        THEN [s1 EXCEPT !.pc = "returned", !.ret = "quit"]
        ELSE
        IF user_action = "reset"
        THEN [s1 EXCEPT !.pc = "returned", !.ret = "reset"]
        ELSE
        IF user_action = "trigger_1"
        THEN [s1 EXCEPT !.gripper_action = @ * (-1), !.pc = "release",
                        !.pending = user_action]
        ELSE
        IF user_action = "trigger_2"
        THEN [s1 EXCEPT !.pc = "release", !.pending = user_action]
        ELSE FinishIteration(s1)

\* while vr.get_user_action() is not None: vr.render(), then the switch
\* of the mode after a trigger_2 and the rest of the iteration
Released(s0, user_action) ==
    LET s1 == [s0 EXCEPT !.trace = <<"get_user_action">>, !.user_action = user_action]
    IN  IF user_action # "None"
        THEN Emit(s1, "vr.render")
        ELSE FinishIteration(IF s1.pending = "trigger_2"
                             THEN [s1 EXCEPT !.mode = SwitchMode(@)]
                             ELSE s1)

\* main: env.reset(seed=eps_id) and collect_episode up to its first loop
\* (the episodes are numbered from 0 to MaxSeed)
MainResetCall ==
    /\ env.pc = "main"
    /\ env.eps_id <= MaxSeed
    /\ env' = [env EXCEPT !.pc = "calibrate", !.elapsed_steps = 0, !.ret = "None",
                          !.trace = <<"env.reset", "vr.reset">>]
    /\ call' = [op |-> "main"]
    /\ UNCHANGED <<twin, steps_since_reset, terminated_before, reset_returned,
                   physx_gpu_enabled, constructed, resets_since_reconfigure, held_info>>

\* the first loop of collect_episode: vr.render() until a trigger_2
CalibrateCall ==
    \E user_action \in UserActions :
        /\ env.pc = "calibrate"
        /\ env' = [env EXCEPT !.trace = <<"vr.render", "get_user_action">>,
                              !.user_action = user_action,
                              !.pc = IF user_action = "trigger_2"
                                     THEN "calibrate_release" ELSE @]
        /\ call' = [op |-> "calibrate", user_action |-> user_action]
        /\ UNCHANGED <<twin, steps_since_reset, terminated_before, reset_returned,
                       physx_gpu_enabled, constructed, resets_since_reconfigure,
                       held_info>>

\* its wait for the trigger to be released, then the break and the
\* assignments before the second loop
CalibrateReleaseCall ==
    \E user_action \in UserActions :
        /\ env.pc = "calibrate_release"
        /\ env' = IF user_action # "None"
                  THEN [env EXCEPT !.trace = <<"get_user_action", "vr.render">>,
                                   !.user_action = user_action]
                  ELSE [env EXCEPT !.trace = <<"get_user_action">>,
                                   !.user_action = user_action,
                                   !.mode = "mobile",
                                   !.gripper_action = 1,
                                   !.pc = "poll"]
        /\ call' = [op |-> "calibrate_release", user_action |-> user_action]
        /\ UNCHANGED <<twin, steps_since_reset, terminated_before, reset_returned,
                       physx_gpu_enabled, constructed, resets_since_reconfigure,
                       held_info>>

\* an iteration of the second loop (the steps of an episode are counted up
\* to MaxElapsed)
IterationCall ==
    \E user_action \in UserActions :
        /\ env.pc = "poll"
        /\ user_action \in {"quit", "reset"} \/ env.elapsed_steps < MaxElapsed
        /\ env' = Iteration(env, user_action)
        /\ call' = [op |-> "iteration", user_action |-> user_action]
        /\ UNCHANGED <<twin, steps_since_reset, terminated_before, reset_returned,
                       physx_gpu_enabled, constructed, resets_since_reconfigure,
                       held_info>>

\* a poll of the loop that waits for the trigger to be released
ReleaseCall ==
    \E user_action \in UserActions :
        /\ env.pc = "release"
        /\ env' = Released(env, user_action)
        /\ call' = [op |-> "release", user_action |-> user_action]
        /\ UNCHANGED <<twin, steps_since_reset, terminated_before, reset_returned,
                       physx_gpu_enabled, constructed, resets_since_reconfigure,
                       held_info>>

\* main after collect_episode has returned: eps_id += 1, then the break
\* and env.close() or the next episode
MainReturnCall ==
    /\ env.pc = "returned"
    /\ env' = [env EXCEPT !.eps_id = @ + 1,
                          !.pc = IF env.ret = "quit" THEN "closed" ELSE "main",
                          !.trace = IF env.ret = "quit" THEN <<"env.close">> ELSE <<>>]
    /\ call' = [op |-> "main"]
    /\ UNCHANGED <<twin, steps_since_reset, terminated_before, reset_returned,
                   physx_gpu_enabled, constructed, resets_since_reconfigure, held_info>>

InitTeleop ==
    /\ env = Teleop
    /\ call = [op |-> "__init__"]
    /\ twin = NoObject
    /\ steps_since_reset = ZeroSteps
    /\ terminated_before = Zeros
    /\ reset_returned = TRUE
    /\ physx_gpu_enabled = FALSE
    /\ constructed = <<>>
    /\ resets_since_reconfigure = 0
    /\ held_info = NoObject

NextTeleop ==
    \/ MainResetCall
    \/ CalibrateCall
    \/ CalibrateReleaseCall
    \/ IterationCall
    \/ ReleaseCall
    \/ MainReturnCall

SpecTeleop == InitTeleop /\ [][NextTeleop]_vars

(* Pictures taken by the human render cameras and renders in a viewer,
   between resets and steps, on tasks with and without hidden objects and
   with no, one and two cameras. *)
InitRender == InitOn({0}, {<<100, 20>>}, {NoReward}, {DefaultObsMode}, {SceneLayouts})

NextRender ==
    \/ ResetCall({ConstructionSeed}, {EmptyDict, [reconfigure |-> TRUE]}, {"none"})
    \/ StepCall({"ndarray"}, {EmptyDict})
    \/ RenderHumanCall
    \/ RenderRgbArrayCall(CameraNameArgs)

SpecRender == InitRender /\ [][NextRender]_vars

-----------------------------------------------------------------------------
(* Properties *)

\* what the last call was
IsReset == call.op = "reset"
IsStep == call.op = "step"

\* the replicas a reset's options name: those of env_idx, or all
Named(options) ==
    IF "env_idx" \in DOMAIN options
    THEN {i \in Replicas : \E k \in DOMAIN options["env_idx"] : options["env_idx"][k] = i}
    ELSE Replicas

Reconfigurations == Count(env.trace, "_reconfigure")

\* C1: every reset call reconfigures exactly once if options["reconfigure"] is
\* true or the reconfiguration counter was 0 with a nonzero
\* reconfiguration_freq, and does not reconfigure otherwise.
C1_ReconfigureIff ==
    [][call'.op = "reset" =>
         LET trigger == Get(call'.options, "reconfigure", FALSE)
                            \/ (env._reconfig_counter = 0 /\ env.reconfiguration_freq # 0)
             n == Count(env'.trace, "_reconfigure")
         IN  (trigger => n = 1) /\ (~trigger => n = 0)]_vars

\* a reset that reconfigured because the counter had reached zero
C1_Witness ==
    /\ IsReset
    /\ ~Get(call.options, "reconfigure", FALSE)
    /\ Reconfigurations = 1
    /\ env.reconfiguration_freq = 2

\* C2: every reset that reconfigures and whose env_idx names fewer than all N
\* replicas fails with the configuration error (RuntimeError), whatever the
\* length of env_idx.
C2_PartialReconfigureRejected ==
    (/\ IsReset
     /\ Reconfigurations = 1
     /\ "env_idx" \in DOMAIN call.options
     /\ Cardinality(Named(call.options)) < NumEnvs)
        => env.raised = "RuntimeError"

\* C3: whenever the most recent reset returned normally (with or without
\* env_idx), the reset mask is true for all N replicas: right after that reset
\* and after every step that follows it.
C3_MaskAllActiveAfterReset ==
    reset_returned => env.scene._reset_mask = Ones

\* a partial reset of a strict subset has returned
C3_Witness ==
    /\ IsReset
    /\ env.raised = NoError
    /\ "env_idx" \in DOMAIN call.options
    /\ Named(call.options) # Replicas
    /\ env.scene._reset_mask = Ones

\* C4: after every reset, on whatever path it handed control back (return or
\* a propagating failure of agent.reset or _initialize_episode), the reset
\* mask is all-active.
C4_MaskRestoredOnEveryPath ==
    IsReset => env.scene._reset_mask = Ones

\* C5: for every replica, elapsed_steps is the number of step calls made (the
\* action accepted) since the last reset that zeroed the replica, also for
\* replicas whose terminated flag was true in an earlier step.
C5_ElapsedCountsSteps ==
    \A i \in Replicas : env._elapsed_steps[i] = steps_since_reset[i]

\* two steps after its reset, a replica that terminated in the first of them
C5_Witness ==
    /\ IsStep
    /\ env.raised = NoError
    /\ \E i \in Replicas :
          /\ terminated_before[i]
          /\ ~env.ret.terminated[i]
          /\ env._elapsed_steps[i] = 2

\* C6: a reset that is not rejected with the configuration error sets
\* elapsed_steps to 0 for exactly the replicas env_idx names (all N without
\* env_idx) and leaves every other replica's elapsed_steps as it was.
C6_ResetZeroesExactlyNamed ==
    [][(call'.op = "reset" /\ env'.raised # "RuntimeError") =>
         \A i \in Replicas :
            env'._elapsed_steps[i] =
                IF i \in Named(call'.options) THEN 0 ELSE env._elapsed_steps[i]]_vars

\* a partial reset that left a replica at a nonzero count
C6_Witness ==
    /\ IsReset
    /\ env.raised = NoError
    /\ \E i, j \in Replicas :
          /\ i \in Named(call.options)
          /\ j \notin Named(call.options)
          /\ env._elapsed_steps[i] = 0
          /\ env._elapsed_steps[j] > 0

\* C7: two independently constructed environments given the same reset calls
\* have the same episode seed and identically seeded generators after every
\* reset, whatever their unseeded generators would have produced.
C7_SameSeedsInTwin ==
    /\ env._episode_seed = twin._episode_seed
    /\ env._episode_rng = twin._episode_rng
    /\ env._main_seed = twin._main_seed
    /\ env._main_rng = twin._main_rng

\* both environments after a seeded reset and two resets without seed
C7_Witness ==
    /\ IsReset
    /\ call.seed = None
    /\ env._main_seed = 1
    /\ env._main_rng = 2
    /\ twin._episode_seed = RandInt(1, 1)

\* C8: a reset with seed s re-initialises the main generator from s and makes
\* s the episode seed; a reset without seed leaves the main generator's seed,
\* takes exactly one draw from it and makes that draw the episode seed.
C8_ResetSeeding ==
    [][call'.op = "reset" =>
         IF call'.seed # None
         THEN /\ env'._main_seed = call'.seed
              /\ env'._main_rng = 0
              /\ env'._episode_seed = call'.seed
         ELSE /\ env'._main_seed = env._main_seed
              /\ env'._main_rng = env._main_rng + 1
              /\ env'._episode_seed = RandInt(env._main_seed, env._main_rng)]_vars

\* a reset without seed that took the second draw of a generator seeded 0
C8_Witness ==
    /\ IsReset
    /\ call.seed = None
    /\ env._main_seed = 0
    /\ env._main_rng = 2
    /\ env._episode_seed = RandInt(0, 1)

\* C9: every step whose action is accepted (None included) makes exactly
\* floor(sim_freq / control_freq) physics steps, 5 for 100 and 20; a ratio
\* that does not divide gives a warning at construction and nothing else.
C9_SubSteps ==
    /\ env.freq_warning <=> (env._sim_freq % env._control_freq # 0)
    /\ (IsStep /\ env.raised = NoError) =>
          LET n == Count(env.trace, "scene.step")
          IN  /\ n * env._control_freq <= env._sim_freq
              /\ env._sim_freq < (n + 1) * env._control_freq
              /\ (env._sim_freq = 100 /\ env._control_freq = 20) => n = 5

\* a step with no action under frequencies that do not divide
C9_Witness ==
    /\ IsStep
    /\ call.action = "None"
    /\ env.freq_warning
    /\ Count(env.trace, "scene.step") = 3

\* C10: in every step that returns, terminated is (success or fail) of what
\* evaluate() returned in that step, replica by replica, an absent key
\* counting as false, and truncated is false for every replica.
C10_Terminated ==
    (IsStep /\ env.raised = NoError) =>
        \A i \in Replicas :
            /\ env.ret.terminated[i] =
                  (\/ ("success" \in DOMAIN call.evaluate /\ call.evaluate["success"][i])
                   \/ ("fail" \in DOMAIN call.evaluate /\ call.evaluate["fail"][i]))
            /\ env.ret.truncated[i] = FALSE

\* success and fail both present, one replica terminated by fail alone,
\* another not terminated
C10_Witness ==
    /\ IsStep
    /\ env.raised = NoError
    /\ DOMAIN call.evaluate = {"success", "fail"}
    /\ \E i, j \in Replicas :
          /\ call.evaluate["fail"][i] /\ ~call.evaluate["success"][i]
          /\ env.ret.terminated[i]
          /\ ~env.ret.terminated[j]

\* a flag of what evaluate() returned, an absent key counting as false
Flag(key, i) == key \in DOMAIN call.evaluate /\ call.evaluate[key][i]

\* the number the returned reward holds for a replica (True is 1, False is 0)
RewardOf(i) ==
    LET r == env.ret.reward
    IN  IF r.dtype = "bool" THEN (IF r.data[i] THEN 1 ELSE 0) ELSE r.data[i]

\* the hook get_reward calls for a dense reward mode
HookOf(reward_mode) ==
    IF reward_mode = "dense"
    THEN "compute_dense_reward"
    ELSE "compute_normalized_dense_reward"

\* C11: with reward_mode "sparse", every step whose action is accepted
\* returns, and the reward of each replica is +1 when success is true and
\* fail is false or absent, -1 when fail is true and success is false or
\* absent, and 0 otherwise (neither key, neither flag, or both flags true).
C11_SparseReward ==
    (IsStep /\ env._reward_mode = "sparse" /\ env.raised # "TypeError") =>
        /\ env.raised = NoError
        /\ \A i \in Replicas :
              RewardOf(i) =
                  IF Flag("success", i) /\ ~Flag("fail", i) THEN 1
                  ELSE IF Flag("fail", i) /\ ~Flag("success", i) THEN 0 - 1
                  ELSE 0

\* C12: with reward_mode "none" every step returns a reward of 0 for all N
\* replicas; with reward_mode "dense" or "normalized_dense" on a task that
\* does not override the hook of that mode, construction succeeds and every
\* step call fails with NotImplementedError.
C12_NoneAndMissingHooks ==
    /\ (IsStep /\ env._reward_mode = "none") =>
          /\ env.raised = NoError
          /\ \A i \in Replicas : RewardOf(i) = 0
    /\ (/\ env._reward_mode \in {"dense", "normalized_dense"}
        /\ HookOf(env._reward_mode) \notin env.overrides) =>
          /\ call.op = "__init__" => env.raised = NoError
          /\ IsStep => env.raised = "NotImplementedError"

\* the second failing step of an environment in the default reward mode, on
\* a task that overrides the other hook only
C12_Witness ==
    /\ IsStep
    /\ env._reward_mode = "normalized_dense"
    /\ env.overrides = {"compute_dense_reward"}
    /\ env.raised = "NotImplementedError"
    /\ env._elapsed_steps = [i \in Replicas |-> 2]

IsSetState == call.op = "set_state"

\* a state dictionary as a mapping: per section, entity id to state
AsMapping(state_dict) ==
    [section \in {"actors", "articulations"} |->
        [id \in {state_dict[section][j][1] : j \in DOMAIN state_dict[section]} |->
            (CHOOSE item \in Range(state_dict[section]) : item[1] = id)[2]]]

\* the scene has the actors, in order, and the articulations, with their
\* widths, of the scene that __init__ recorded in _init_raw_state
InitialLayout == GetStateDict(env) = env._init_raw_state

\* C13 as stated: after any sequence of resets, reconfiguring ones that
\* rebuild the scene with other actors, articulations or widths included,
\* set_state(get_state()) rebuilds exactly the dictionary of get_state_dict().
C13_RoundTripAfterAnyResets ==
    IsSetState => AsMapping(env.ret.state_dict) = AsMapping(GetStateDict(env))

\* C13, amended: whenever the scene has the layout recorded at construction
\* (the same actors in the same order, the same articulations with the same
\* state widths), set_state(get_state()) rebuilds exactly the dictionary of
\* get_state_dict(): 13 scalars per actor, then each articulation's width.
C13_RoundTripInInitialLayout ==
    (IsSetState /\ InitialLayout) =>
        /\ AsMapping(env.ret.state_dict) = AsMapping(GetStateDict(env))
        /\ \A j \in DOMAIN env.ret.state_dict.actors :
              Len(env.ret.state_dict.actors[j][2]) = 13
        /\ \A j \in DOMAIN env.ret.state_dict.articulations :
              Len(env.ret.state_dict.articulations[j][2]) = env.scene.articulations[j][2]

\* a round trip in a scene of two actors and an articulation, at its initial
\* layout, of a task that can build other scenes, after resets that rebuild
\* the scene every time
C13_Witness ==
    /\ IsSetState
    /\ InitialLayout
    /\ Len(env.scene.actors) = 2
    /\ env.reconfiguration_freq = 1
    /\ env._elapsed_steps = [i \in Replicas |-> 1]
    /\ Len(Flatten(env.ret.state_dict)) = 28

\* C14: with reconfiguration_freq = 0, over any sequence of reset and step
\* calls, the environment reconfigures exactly once at construction, and
\* afterwards exactly in the resets whose options request reconfigure; the
\* reconfiguration counter is 0 throughout.
C14_FreqZeroReconfigures ==
    /\ [](env.reconfiguration_freq = 0 =>
             /\ env._reconfig_counter = 0
             /\ call.op = "__init__" => Reconfigurations = 1)
    /\ [][env.reconfiguration_freq = 0 =>
             Count(env'.trace, "_reconfigure") =
                 IF call'.op = "reset" /\ Get(call'.options, "reconfigure", FALSE)
                 THEN 1 ELSE 0]_vars

\* under frequency 0, a reset without request that followed steps and did not
\* reconfigure
C14_Witness ==
    /\ env.reconfiguration_freq = 0
    /\ IsReset
    /\ call.options = EmptyDict
    /\ env.raised = NoError
    /\ Reconfigurations = 0
    /\ env._reconfig_counter = 0

\* C15: the info record a reset returns has "reconfigure" true exactly when
\* that reset call reconfigured, on request or because the counter had
\* reached zero, and false otherwise.
C15_InfoReconfigure ==
    ((IsReset \/ call.op = "__init__") /\ env.raised = NoError) =>
        (env.ret.reconfigure <=> Reconfigurations = 1)

\* a reset that reconfigured without being asked to, and says so
C15_Witness ==
    /\ IsReset
    /\ env.raised = NoError
    /\ "reconfigure" \notin DOMAIN call.options
    /\ env.ret.reconfigure
    /\ Reconfigurations = 1

IsClose == call.op = "close"

\* the attributes of the environment, without the record of the last call
Attributes(s) ==
    [f \in DOMAIN s \ {"trace", "seen", "built", "raised", "ret"} |-> s[f]]

\* C16: every close, from any reachable state, succeeds and leaves the
\* environment without scene, agent, sensors, human-render cameras, hidden
\* objects and open viewer; a close that follows a close leaves every
\* attribute as it was.
C16_CloseReleasesAll ==
    [][call'.op = "close" =>
         /\ env'.raised = NoError
         /\ env'.scene = NoObject
         /\ env'.agent = NoObject
         /\ env'._sensors = EmptyDict
         /\ env'._human_render_cameras = EmptyDict
         /\ env'._hidden_objects = <<>>
         /\ env'._viewer = NoObject
         /\ (call.op = "close" => Attributes(env') = Attributes(env))]_vars

\* a close that closed an open viewer, after steps
C16_Witness ==
    /\ IsClose
    /\ Count(env.trace, "_viewer.close") = 1
    /\ env._viewer = NoObject
    /\ env.scene = NoObject
    /\ env._elapsed_steps = [i \in Replicas |-> 1]

\* the calls of the last reset from the second seeding of the episode
\* generator on
ResetTail ==
    LET k == CHOOSE k \in DOMAIN env.trace : env.trace[k] = "_set_episode_rng"
    IN  SubSeq(env.trace, k, Len(env.trace))

\* C19: every reset that returns (the one of __init__ included) re-seeds the
\* episode generator, then resets the agent, then runs _initialize_episode,
\* then restores the all-active reset mask, then on the GPU backend applies
\* the pending writes, updates the kinematics and fetches the results, and
\* only then computes the initial observation, exactly once (and, within
\* it, the info that get_obs was not given).
C19_ResetOrder ==
    ((IsReset \/ call.op = "__init__") /\ env.raised = NoError) =>
        /\ Count(env.trace, "_set_episode_rng") = 1
        /\ Count(env.trace, "get_obs") = 1
        /\ ResetTail =
              <<"_set_episode_rng", "agent.reset", "_initialize_episode",
                "scene._reset_mask = ones">>
              \o (IF env.gpu_sim_enabled
                  THEN <<"_gpu_apply_all", "gpu_update_articulation_kinematics",
                         "_gpu_fetch_all">>
                  ELSE <<>>)
              \o <<"get_obs", "evaluate">>

\* a partial reset on the GPU backend that returned: the observation comes
\* last, right after the fetch
C19_Witness ==
    /\ IsReset
    /\ env.raised = NoError
    /\ env.gpu_sim_enabled
    /\ Named(call.options) # Replicas
    /\ env.trace[Len(env.trace) - 1] = "get_obs"
    /\ env.trace[Len(env.trace) - 2] = "_gpu_fetch_all"

\* C20: in a reset with env_idx naming a strict subset of the replicas, the
\* reset mask is all-active at the moment _clear_sim_state runs, so that the
\* velocities of all N replicas are cleared.
C20_ClearIsFullBatch ==
    (/\ IsReset
     /\ Named(call.options) # Replicas
     /\ Count(env.trace, "_clear_sim_state") = 1)
        => env.clear_mask = Ones

\* C17: every constructor call with sim_backend "cpu" and more than one
\* replica fails with the RuntimeError, builds no scene and leaves the flag
\* of the process (GPU simulation enabled) as it was before the call.
C17_CpuBackendFailsFast ==
    \A k \in DOMAIN constructed :
        (constructed[k].sim_backend = "cpu" /\ constructed[k].num_envs > 1) =>
            /\ constructed[k].raised = "RuntimeError"
            /\ ~constructed[k].scene_built
            /\ constructed[k].gpu_after = constructed[k].gpu_before

\* C18: after any sequence of constructions in one process, the device of
\* every constructed environment is the accelerator exactly when GPU
\* simulation is enabled for the process; an environment whose construction
\* warned that it switches to the GPU backend is on the accelerator.
C18_DeviceFollowsProcessFlag ==
    \A k \in DOMAIN constructed :
        constructed[k].raised = NoError =>
            /\ (constructed[k].device = "cuda") <=> physx_gpu_enabled
            /\ constructed[k].warned => constructed[k].device = "cuda"

(* ---- the step protocol ---- *)

Returned(op) == call.op = op /\ env.raised = NoError

\* the hooks of the task that a step calls around the physics
ControlHooks ==
    {"_before_control_step", "_before_simulation_step", "_after_simulation_step",
     "_after_control_step"}

\* C21: within a step the elapsed-step counters are incremented before the
\* physics sub-steps run, so that every control-step and sub-step hook of
\* the step finds in elapsed_steps the value the step returns with.
C21_HooksSeeIncremented ==
    Returned("step") =>
        \A h \in ControlHooks \cap DOMAIN env.seen : env.seen[h] = env._elapsed_steps

\* the part of a sequence before the first e
Before(seq, e) ==
    IF \E k \in DOMAIN seq : seq[k] = e
    THEN SubSeq(seq, 1, (CHOOSE k \in DOMAIN seq :
                             seq[k] = e /\ \A j \in 1 .. k - 1 : seq[j] # e) - 1)
    ELSE seq

RECURSIVE Repeat(_, _)
Repeat(seq, n) == IF n <= 0 THEN <<>> ELSE seq \o Repeat(seq, n - 1)

\* one physics sub-step
SubStep ==
    <<"agent.before_simulation_step", "_before_simulation_step", "scene.step",
      "_after_simulation_step">>

\* the events of _step_action that the step protocol orders
ProtocolEvents ==
    Range(SubStep) \cup
        {"agent.set_action", "_before_control_step", "_after_control_step",
         "_gpu_fetch_all"}

\* what a step does before it computes info, observation and reward
StepPhysics == SelectSeq(Before(env.trace, "evaluate"), LAMBDA e : e \in ProtocolEvents)

\* C22: in a step whose action is accepted the events are, in this order:
\* agent.set_action if an action is given, _before_control_step once, the
\* _sim_steps_per_control sub-steps one after the other, each of them
\* agent.before_simulation_step, _before_simulation_step, the physics step,
\* _after_simulation_step, then _after_control_step once and, on the GPU,
\* one fetch of the results after the last sub-step and none before.
C22_StepOrder ==
    (call.op = "step" /\ env.raised # "TypeError") =>
        StepPhysics =
            (IF call.action = "None" THEN <<>> ELSE <<"agent.set_action">>)
            \o <<"_before_control_step">>
            \o Repeat(SubStep, env._sim_steps_per_control)
            \o <<"_after_control_step">>
            \o (IF env.gpu_sim_enabled THEN <<"_gpu_fetch_all">> ELSE <<>>)

C22_Witness ==
    /\ Returned("step")
    /\ call.action = "ndarray"
    /\ env.gpu_sim_enabled
    /\ env._sim_steps_per_control >= 2
    /\ Count(env.trace, "scene.step") = env._sim_steps_per_control
    /\ Count(env.trace, "_gpu_fetch_all") = 1

\* the part of a sequence from the first e on
From(seq, e) == SubSeq(seq, Len(Before(seq, e)) + 1, Len(seq))

\* C23: in a step whose action is accepted evaluate() is called once, after
\* all the physics sub-steps; the info comes before the observation and the
\* observation before the reward; the info that the observation and reward
\* hooks receive is the one the step returns, evaluate()'s output with the
\* elapsed steps.
C23_InfoOnceThenObsThenReward ==
    (call.op = "step" /\ env.raised # "TypeError") =>
        /\ Count(env.trace, "evaluate") = 1
        /\ Count(Before(env.trace, "evaluate"), "scene.step") = env._sim_steps_per_control
        /\ From(env.trace, "evaluate") = <<"evaluate", "get_obs", "get_reward">>
        /\ env.seen["_get_obs_extra"] = env.ret.info
        /\ env.seen["get_reward"] = env.ret.info
        /\ env.ret.info = call.evaluate @@ ("elapsed_steps" :> env._elapsed_steps)

C23_Witness ==
    /\ Returned("step")
    /\ call.evaluate = [success |-> Ones, fail |-> Zeros]
    /\ env.seen["get_reward"] = env.ret.info
    /\ "success" \in DOMAIN env.seen["_get_obs_extra"]
    /\ Count(env.trace, "scene.step") >= 1

(* ---- reconfiguration ---- *)

\* the phases of a reconfiguration
Phases ==
    {"_clear", "_setup_scene", "_load_agent", "_load_scene", "_load_lighting",
     "_setup_gpu", "_setup_sensors"}

\* what the reconfiguration of the last call did, phase by phase
ReconfigurePhases ==
    SelectSeq(Before(From(env.trace, "_reconfigure"), "_after_reconfigure"),
              LAMBDA e : e \in Phases)

\* C24: every reconfiguration (the one of __init__ included) clears the old
\* scene, sets the new scene up, loads the agent, the scene and the
\* lighting, then does the GPU setup if GPU simulation is enabled, and only
\* then sets the sensors up; when it is done the reconfiguration counter is
\* reconfiguration_freq.
C24_ReconfigureOrder ==
    Count(env.trace, "_reconfigure") > 0 =>
        /\ ReconfigurePhases =
              <<"_clear", "_setup_scene", "_load_agent", "_load_scene", "_load_lighting">>
              \o (IF env.gpu_sim_enabled THEN <<"_setup_gpu">> ELSE <<>>)
              \o <<"_setup_sensors">>
        /\ env.seen["_after_reconfigure"] = env.reconfiguration_freq

C24_Witness ==
    /\ IsReset
    /\ Count(env.trace, "_reconfigure") = 1
    /\ env.gpu_sim_enabled
    /\ env.reconfiguration_freq = 2
    /\ env.seen["_after_reconfigure"] = 2
    /\ env._reconfig_counter = 1

\* the attributes that hold the scene, the agent and the sensors
Instances == {"scene", "agent", "_sensors"}

\* C25: a reset that does not reconfigure and a step leave the environment
\* with the scene, agent and sensor instances it had; a reset that
\* reconfigures leaves it with a scene, an agent and sensors that are all
\* newly built instances; and an environment that was constructed and not
\* closed has a scene and an agent whenever a call has returned or raised.
C25_Instances ==
    /\ [](env.scene # NoObject /\ env.agent # NoObject)
    /\ [][call'.op \in {"reset", "step"} =>
            /\ env'.built \cap Instances =
                   IF Count(env'.trace, "_reconfigure") = 0 THEN {} ELSE Instances
            /\ \A a \in Instances : (env'[a] = NoObject) <=> (env[a] = NoObject)
            /\ Count(env'.trace, "_reconfigure") = 0 =>
                   /\ env'.agent = env.agent
                   /\ env'._sensors = env._sensors]_vars

\* a reset that rebuilt the scene of an environment
C25_Witness ==
    /\ Returned("reset")
    /\ Count(env.trace, "_reconfigure") = 1
    /\ Instances \subseteq env.built
    /\ \A a \in Instances : env[a] # NoObject

(* ---- the generators of an episode ---- *)

\* generators newly seeded with the episode seed
EpisodeSeeded ==
    [torch |-> [seed |-> env._episode_seed, draws |-> 0],
     _episode_seed |-> env._episode_seed, _episode_rng |-> 0]

\* C26: in every reset the torch context of the reconfiguration and the one
\* of _initialize_episode are seeded with the same seed, the episode seed;
\* _initialize_episode starts from generators newly seeded with it, whatever
\* the reconfiguration drew; and the second seeding of the episode generator
\* draws nothing from the main generator, which a reset without seed
\* advances by one draw and a reset with a seed by none.
C26_EpisodeSeeding ==
    /\ []((call.op \in {"reset", "__init__"} /\ env.raised = NoError) =>
            /\ env.seen["_initialize_episode"] = EpisodeSeeded
            /\ Count(env.trace, "_reconfigure") > 0 =>
                   env.seen["_reconfigure"] = EpisodeSeeded)
    /\ [][call'.op = "reset" =>
            env'._main_rng = IF call'.seed = None THEN env._main_rng + 1 ELSE 0]_vars

\* a reset without seed whose reconfiguration drew twice
C26_Witness ==
    /\ Returned("reset")
    /\ call.seed = None
    /\ Count(env.trace, "_reconfigure") = 1
    /\ \E layout \in env.loads :
           layout.draws = 2 /\ env.scene.articulations = layout.articulations
    /\ env.seen["_reconfigure"] = env.seen["_initialize_episode"]
    /\ env._episode_rng = 0

(* ---- actions that ask for a control mode ---- *)

\* what a step does before it hands the action to the agent
BeforeSetAction == Before(env.trace, "agent.set_action")

\* The claim C27 as it is made: a step whose action is a dict with a
\* 'control_mode' m swaps the controller to m and resets it before the
\* action is applied, whatever m is, the current mode included, and leaves
\* the agent in mode m.
C27_AlwaysSwapped ==
    (Returned("step") /\ call.action = "dict") =>
        /\ BeforeSetAction = <<"agent.set_control_mode", "agent.controller.reset">>
        /\ env.agent.control_mode = call.control_mode

\* C27: a step whose action is a dict with a 'control_mode' m other than
\* the agent's current mode swaps the controller to m and resets it, once,
\* before the action is applied; with m the current mode it neither swaps
\* nor resets the controller; in both cases the action is applied and the
\* agent is in mode m after the step.
C27_SwappedWhenDifferent ==
    [][(call'.op = "step" /\ call'.action = "dict" /\ env'.raised = NoError) =>
          /\ Before(env'.trace, "agent.set_action") =
                 IF call'.control_mode # env.agent.control_mode
                 THEN <<"agent.set_control_mode", "agent.controller.reset">>
                 ELSE <<>>
          /\ Count(env'.trace, "agent.set_action") = 1
          /\ Count(env'.trace, "agent.set_control_mode") <= 1
          /\ Count(env'.trace, "agent.controller.reset") <= 1
          /\ env'.agent.control_mode = call'.control_mode]_vars

\* a step that took the agent out of the mode it was built in
C27_Witness ==
    /\ Returned("step")
    /\ call.action = "dict"
    /\ call.control_mode # DefaultControlMode
    /\ env.agent.control_mode = call.control_mode
    /\ BeforeSetAction = <<"agent.set_control_mode", "agent.controller.reset">>

\* C28: a step whose action is neither None, an array, a tensor nor a dict
\* raises a TypeError and does nothing else: no action is applied, no
\* sub-step and no hook runs, and elapsed_steps and every other attribute
\* of the environment are as before the call.
C28_TypeErrorBeforeAnyEffect ==
    [][(call'.op = "step" /\ call'.action \notin {"None", "ndarray", "dict"}) =>
          /\ env'.raised = "TypeError"
          /\ env'.trace = <<>>
          /\ env'.seen = EmptyDict
          /\ env'._elapsed_steps = env._elapsed_steps
          /\ Attributes(env') = Attributes(env)]_vars

\* a string given as action to an environment that has made a step
C28_Witness ==
    /\ call.op = "step"
    /\ call.action = "str"
    /\ env.raised = "TypeError"
    /\ env.trace = <<>>
    /\ \A i \in Replicas : env._elapsed_steps[i] = 1

(* ---- observations ---- *)

\* C29: when get_obs runs in a sensor-based observation mode the hidden
\* objects are hidden before the sensors capture, and once get_obs has
\* returned the actors are rendered or not as they were when it was called.
C29_VisibilityRestored ==
    (env._obs_mode \in SensorObsModes /\ env.raised = NoError
         /\ Count(env.trace, "get_obs") > 0) =>
        /\ env._hidden_objects # <<>> =>
               Count(Before(From(env.trace, "get_obs"), "capture_sensor_data"),
                     "hide_visual") = 1
        /\ env.scene.visible = env.seen["get_obs"]

(* ---- periodic reconfiguration ---- *)

\* C30: an environment with reconfiguration_freq = k > 0 whose resets all
\* return and never ask for a reconfiguration reconfigures at construction
\* and then in exactly every k-th reset after the last reconfiguration (in
\* every reset when k = 1); its reconfiguration counter is never negative
\* and never above k.
C30_EveryKthReset ==
    /\ [](/\ env._reconfig_counter \in 0 .. env.reconfiguration_freq
          /\ call.op = "__init__" => Count(env.trace, "_reconfigure") = 1)
    /\ [][call'.op = "reset" =>
            /\ env'.raised = NoError
            /\ Count(env'.trace, "_reconfigure") =
                   IF resets_since_reconfigure = env.reconfiguration_freq - 1
                   THEN 1 ELSE 0]_vars

\* the second reset of an environment that reconfigures every second reset
C30_Witness ==
    /\ Returned("reset")
    /\ env.reconfiguration_freq = 2
    /\ Count(env.trace, "_reconfigure") = 1
    /\ resets_since_reconfigure = 0
    /\ env._reconfig_counter = 1

(* ---- resets that are rejected ---- *)

\* C31: a reset that fails because it combines a reconfiguration with an
\* env_idx naming part of the replicas leaves the environment as it was
\* before the call: nothing of the scene, the agent and the sensors is torn
\* down or rebuilt, and the reconfiguration counter, elapsed_steps, the
\* reset mask and the main and episode seeds are unchanged.
C31_RejectedResetChangesNothing ==
    [][(call'.op = "reset" /\ env'.raised = "RuntimeError") =>
          /\ env'.built = {}
          /\ Count(env'.trace, "_clear") = 0
          /\ env'._reconfig_counter = env._reconfig_counter
          /\ env'._elapsed_steps = env._elapsed_steps
          /\ env'.scene._reset_mask = env.scene._reset_mask
          /\ SeedingOf(env') = SeedingOf(env)]_vars

(* ---- info records ---- *)

\* C32: the elapsed_steps in an info record that a step returned is a
\* snapshot of that step: on the CPU and on the GPU backend, whatever steps
\* and resets come later, the caller reads in the record the elapsed_steps
\* it held when it was returned.
C32_InfoIsSnapshot ==
    held_info # NoObject =>
        held_info.now["elapsed_steps"] = held_info.returned["elapsed_steps"]

(* ---- render_rgb_array, render_human ---- *)

\* C33: render_rgb_array shows the hidden objects for the picture and has
\* hidden them again when it returns, whether the cameras selected are
\* none, one or several; render_human too returns with them hidden.
C33_HiddenAgainAfterRender ==
    [][(call'.op \in {"render_rgb_array", "render_human"} /\ env'.raised = NoError) =>
          /\ Range(env'._hidden_objects) \cap env'.scene.visible = {}
          /\ "picture" \in DOMAIN env'.seen =>
                 Range(env'._hidden_objects) \subseteq env'.seen["picture"]]_vars

(* ---- StackCube: the dense rewards ---- *)

\* C34: the dense reward of StackCube is staged per replica, a later stage
\* overriding the earlier ones in the order reaching < grasped < cubeA on
\* cubeB < success: a replica whose success flag is true receives exactly 8,
\* a replica on cubeB that is not successful a value between 6 and 7, a
\* replica grasped and not on cubeB 4 plus its place reward, any other
\* replica its reaching reward; the normalized dense reward is the dense
\* reward divided by 8, exactly 1 on success.
C34_StagedReward ==
    /\ call.op = "compute_dense_reward" =>
           \A i \in Arange(env.num_envs) :
               IF call.info.success[i]
               THEN call.ret[i] = Num(8)
               ELSE
               IF call.info.is_cubeA_on_cubeB[i]
               THEN Leq(Num(6), call.ret[i]) /\ Leq(call.ret[i], Num(7))
               ELSE
               IF call.info.is_cubeA_grasped[i]
               THEN Same(call.ret[i], Plus(Num(4), Minus(One, env.tanh_cubeA_to_goal[i])))
               ELSE Same(call.ret[i], Times(2, Minus(One, env.tanh_cubeA_to_tcp[i])))
    /\ call.op = "compute_normalized_dense_reward" =>
           \A i \in Arange(env.num_envs) :
               /\ Same(Times(8, call.ret[i]), StackCubeDenseReward(env, call.info)[i])
               /\ call.info.success[i] => Same(call.ret[i], One)

\* both rewards computed in a scene where, of two replicas, one is
\* successful and the other is grasped on cubeB with the gripper closed
C34_Witness ==
    /\ call.op \in {"compute_dense_reward", "compute_normalized_dense_reward"}
    /\ \E i, j \in Arange(env.num_envs) :
           /\ call.info.success[i]
           /\ ~call.info.success[j]
           /\ call.info.is_cubeA_on_cubeB[j]
           /\ call.info.is_cubeA_grasped[j]
           /\ env.gripper_opening[j] = Zero

(* ---- VR teleoperation: the modes of collect_episode ---- *)

\* the steps issued since the last poll, and whether the second loop of
\* collect_episode is running
StepsIssued(s) ==
    SelectSeq(s.trace, LAMBDA e : e \in {"pd_ee_pose_quat", "pd_joint_pos"})
InLoop(s) == s.pc \in {"poll", "release"}

\* C35: in the teleoperation loop the mode starts as "mobile"; a trigger_2
\* press, once released, advances it by one position in the cycle
\* mobile -> calibrate_ee -> ee -> mobile and nothing else changes it; an
\* iteration that ends in mode calibrate_ee issues no env.step, one that
\* ends in mode ee issues one step that requests pd_ee_pose_quat, one that
\* ends in mode mobile one step that requests pd_joint_pos; the loop ends
\* only on the user action quit or reset.
C35_TeleopModes ==
    [][/\ (~InLoop(env) /\ InLoop(env')) => env'.mode = "mobile"
       /\ (InLoop(env) /\ InLoop(env')) =>
              IF env.pc = "release" /\ env.pending = "trigger_2" /\ env'.pc = "poll"
              THEN <<env.mode, env'.mode>> \in
                       {<<"mobile", "calibrate_ee">>, <<"calibrate_ee", "ee">>,
                        <<"ee", "mobile">>}
              ELSE env'.mode = env.mode
       /\ (InLoop(env) /\ env'.pc = "poll") =>
              StepsIssued(env') =
                  IF env'.mode = "calibrate_ee" THEN <<>>
                  ELSE IF env'.mode = "ee" THEN <<"pd_ee_pose_quat">>
                  ELSE <<"pd_joint_pos">>
       /\ (InLoop(env) /\ env'.pc = "release") => StepsIssued(env') = <<>>
       /\ (InLoop(env) /\ ~InLoop(env')) =>
              /\ env.pc = "poll"
              /\ env'.pc = "returned"
              /\ env'.user_action \in {"quit", "reset"}
              /\ env'.ret = env'.user_action
              /\ StepsIssued(env') = <<>>]_vars

\* a second episode in which the mode has gone round the cycle to ee and a
\* step was issued
C35_Witness ==
    /\ env.pc = "poll"
    /\ env.eps_id = 1
    /\ env.mode = "ee"
    /\ env.elapsed_steps > 0
    /\ env.control_mode = "pd_ee_pose_quat"

=============================================================================
